---- MODULE Spec2Model ----
(***************************************************************************)
(* A model of text-grid's GridBuilder: the shared text buffer, the flat    *)
(* cell list, the row index, the column styles, the width reconciliation   *)
(* of get_widths, the border rules and the Display implementation, and the *)
(* three sinks (GridLayout, HeaderWriter, BodyWriter) that a schema is     *)
(* replayed against.                                                       *)
(*                                                                         *)
(* Indices are zero-based as in the Rust source; At(q, i) reads element i  *)
(* of a sequence counted from zero.                                        *)
(***************************************************************************)
EXTENDS Integers, Sequences, FiniteSets, TLC

VARIABLES
    s,              \* GridBuilder::s, the shared text buffer (sequence of characters)
    cells,          \* GridBuilder::cells, Vec<CellEntry>
    rows,           \* GridBuilder::rows, Vec<RowEntry>
    columns,        \* GridBuilder::columns
    column_styles,  \* GridBuilder::column_styles
    schema,         \* the CellsSchema the grid was built from (<<>> for GridBuilder::new)
    target,         \* loop variable of new_with_header
    out             \* what the last Display::fmt wrote for the grid as it stands

vars == <<s, cells, rows, columns, column_styles, schema, target, out>>

(***************************************************************************)
(* Bounds of the model.                                                    *)
(***************************************************************************)
MaxRows == 2        \* rows pushed through GridBuilder::push
MaxColumns == 2     \* sum of the colspans asked for in one pushed row
MaxSpanColumns == 3 \* the same, in the specification with wider rows
MaxStyles == 2      \* length of a column_styles vector assigned by the caller
LongLen == 9        \* narrow characters that follow the wide one in the long text
MaxNodes == 3       \* declarations in a schema
MaxBodyRows == 1    \* body rows pushed through extend_with_schema
MaxStyleRows == 2   \* rows pushed in the specification of cell styles
MaxCsvItems == 1    \* items handed to write_csv

(***************************************************************************)
(* Small helpers.                                                          *)
(***************************************************************************)
At(q, i) == q[i + 1]

Max(a, b) == IF a >= b THEN a ELSE b

Min(a, b) == IF a <= b THEN a ELSE b

Rep(c, n) == [i \in 1..n |-> c]

RECURSIVE Concat(_)
Concat(qs) == IF qs = <<>> THEN <<>> ELSE Head(qs) \o Concat(Tail(qs))

(***************************************************************************)
(* Text and its display width (unicode_width::UnicodeWidthStr::width).     *)
(* "W" stands for an East-Asian wide character: one character, two         *)
(* display columns.  Every other character is one column wide.             *)
(***************************************************************************)
CharWidth(c) == IF c = "W" THEN 2 ELSE 1

RECURSIVE width(_)
width(t) == IF t = <<>> THEN 0 ELSE CharWidth(Head(t)) + width(Tail(t))

(***************************************************************************)
(* CellStyle and HorizontalAlignment.  NoAlign is align_h = None.          *)
(***************************************************************************)
NoAlign == "None"
Left == "Left"
Center == "Center"
Right == "Right"

CellStyle_or(self, style) == IF self # NoAlign THEN self ELSE style

(***************************************************************************)
(* RawCell values handed to the builder: the text their fmt writes, their  *)
(* style() and their style_for_body().                                     *)
(***************************************************************************)
RawCell(text, style, style_for_body) ==
    [text |-> text, style |-> style, style_for_body |-> style_for_body]

Cell_empty == RawCell(<<>>, NoAlign, NoAlign)

LongText == <<"W">> \o Rep("x", LongLen)

\* A number-like cell (no style of its own, right-aligned in a body) and a
\* long text cell centred by its own style.
RawCells ==
    { RawCell(<<"W">>, NoAlign, Right),
      RawCell(LongText, Center, Left) }

(***************************************************************************)
(* ColumnStyle.                                                            *)
(***************************************************************************)
ColumnStyle(column_end, stretch) == [column_end |-> column_end, stretch |-> stretch]

ColumnStyle_DEFAULT == ColumnStyle(TRUE, FALSE)

\* The styles a caller puts into column_styles: the default, a column with
\* no divider after it, a column to stretch.
ColumnStyleInputs ==
    { ColumnStyle_DEFAULT, ColumnStyle(FALSE, FALSE), ColumnStyle(TRUE, TRUE) }

(***************************************************************************)
(* The grid as a value, so that the operations can be composed.            *)
(***************************************************************************)
Grid ==
    [s |-> s, cells |-> cells, rows |-> rows, columns |-> columns,
     column_styles |-> column_styles]

GridBuilder_new ==
    [s |-> <<>>, cells |-> <<>>, rows |-> <<>>, columns |-> 0, column_styles |-> <<>>]

\* GridBuilder::push_cell
push_cell(g, cell, colspan) ==
    LET s_idx == Len(g.s)
        s1 == g.s \o cell.text
    IN [g EXCEPT
          !.s = s1,
          !.cells = Append(@,
              [s_idx |-> s_idx,
               width |-> width(SubSeq(s1, s_idx + 1, Len(s1))),
               colspan |-> colspan,
               style |-> CellStyle_or(cell.style, cell.style_for_body)])]

\* RowBuilder::push
RowBuilder_push(g, cell) == push_cell(g, cell, 1)

\* push_with_colspan that stores an empty cell when colspan is 0
push_with_colspan_empty(g, cell, colspan) ==
    IF colspan # 0 THEN push_cell(g, cell, colspan) ELSE push_cell(g, Cell_empty, 0)

\* push_with_colspan without its test of colspan
push_with_colspan_always(g, cell, colspan) == push_cell(g, cell, colspan)

\* RowBuilder::push_with_colspan
push_with_colspan(g, cell, colspan) ==
    IF colspan # 0 THEN push_cell(g, cell, colspan) ELSE g

RECURSIVE SumColspan(_, _)
SumColspan(cs, from) ==
    IF from >= Len(cs) THEN 0 ELSE At(cs, from).colspan + SumColspan(cs, from + 1)

\* Drop that sets columns to the width of the row it ends
RowBuilder_drop_last(g, cells_idx) ==
    [g EXCEPT
       !.columns = SumColspan(g.cells, cells_idx),
       !.rows = Append(@, [cells_idx |-> cells_idx, has_separator |-> FALSE])]

\* impl Drop for RowBuilder
RowBuilder_drop(g, cells_idx) ==
    [g EXCEPT
       !.columns = Max(@, SumColspan(g.cells, cells_idx)),
       !.rows = Append(@, [cells_idx |-> cells_idx, has_separator |-> FALSE])]

\* The closure given to GridBuilder::push, as the calls it makes on the
\* RowBuilder: a sequence of [cell, colspan].
RECURSIVE RunRowCalls(_, _)
RunRowCalls(g, calls) ==
    IF calls = <<>> THEN g
    ELSE RunRowCalls(push_with_colspan(g, Head(calls).cell, Head(calls).colspan),
                     Tail(calls))

\* GridBuilder::push
GridBuilder_push(g, calls) ==
    LET cells_idx == Len(g.cells)
    IN RowBuilder_drop(RunRowCalls(g, calls), cells_idx)

\* push_separator that marks the first row
push_separator_first(g) ==
    IF g.rows # <<>>
    THEN [g EXCEPT !.rows[1].has_separator = TRUE]
    ELSE g

\* GridBuilder::push_separator
push_separator(g) ==
    IF g.rows # <<>>
    THEN [g EXCEPT !.rows[Len(g.rows)].has_separator = TRUE]
    ELSE g

\* column_style that takes the last style for a column beyond the vector
column_style_last(g, column) ==
    IF g.column_styles = <<>> THEN ColumnStyle_DEFAULT
    ELSE At(g.column_styles, Min(column, Len(g.column_styles) - 1))

\* GridBuilder::column_style
column_style(g, column) ==
    IF column < Len(g.column_styles) THEN At(g.column_styles, column)
    ELSE ColumnStyle_DEFAULT

\* has_border with `n > self.columns` in place of `n >= self.columns`.
has_border_gt(g, n) ==
    IF n = 0 THEN FALSE
    ELSE IF n > g.columns THEN TRUE
    ELSE column_style(g, n - 1).column_end

\* GridBuilder::has_border
has_border(g, n) ==
    IF n = 0 THEN FALSE
    ELSE IF n >= g.columns THEN TRUE
    ELSE column_style(g, n - 1).column_end

\* has_left_padding that does not ask has_border
has_left_padding_always(g, n) == TRUE

\* GridBuilder::has_left_padding
has_left_padding(g, n) == IF n = 0 THEN TRUE ELSE has_border(g, n)

\* GridBuilder::has_right_padding
has_right_padding(g, n) == IF n = g.columns THEN TRUE ELSE has_border(g, n + 1)

\* get_width_from that counts 2 for a divider and its padding, not 3
RECURSIVE get_width_from_narrow(_, _, _, _, _)
get_width_from_narrow(g, widths, column, colspan, i) ==
    IF i >= colspan THEN 0
    ELSE (IF has_border(g, column + i) THEN 2 ELSE 0)
         + At(widths, column + i)
         + get_width_from_narrow(g, widths, column, colspan, i + 1)

\* GridBuilder::get_width
RECURSIVE get_width_from(_, _, _, _, _)
get_width_from(g, widths, column, colspan, i) ==
    IF i >= colspan THEN 0
    ELSE (IF has_border(g, column + i) THEN 3 ELSE 0)
         + At(widths, column + i)
         + get_width_from(g, widths, column, colspan, i + 1)

\* the assertion at the head of get_width
get_width_assert(colspan) == colspan >= 1

get_width(g, widths, column, colspan) ==
    At(widths, column) + get_width_from(g, widths, column, colspan, 1)

\* GridBuilder::stretch_count
stretch_count(g, column, colspan) ==
    Cardinality({i \in 0..(colspan - 1) : column_style(g, column + i).stretch})

\* GridBuilder::cells_idx
cells_idx_of(g, row) ==
    IF row < Len(g.rows) THEN At(g.rows, row).cells_idx ELSE Len(g.cells)

\* GridBuilder::s_idx
s_idx_of(g, idx) ==
    IF idx < Len(g.cells) THEN At(g.cells, idx).s_idx ELSE Len(g.s)

\* Cursor::next, repeated until None: the CellRefs of the cells idx..end-1,
\* the first of them starting at `column`.
RECURSIVE Cursor_collect(_, _, _, _)
Cursor_collect(g, column, idx, end) ==
    IF idx = end THEN <<>>
    ELSE LET c == At(g.cells, idx)
             r == [width |-> c.width, colspan |-> c.colspan, style |-> c.style,
                   s |-> SubSeq(g.s, s_idx_of(g, idx) + 1, s_idx_of(g, idx + 1)),
                   column |-> column, idx |-> idx]
         IN <<r>> \o Cursor_collect(g, column + c.colspan, idx + 1, end)

\* GridBuilder::row, iterated to its end
row(g, r) == Cursor_collect(g, 0, cells_idx_of(g, r), cells_idx_of(g, r + 1))

\* GridBuilder::rows, flattened: every CellRef of the grid
AllCellRefs(g) ==
    UNION { LET cs == row(g, r) IN {cs[i] : i \in 1..Len(cs)} : r \in 0..(Len(g.rows) - 1) }

(***************************************************************************)
(* GridBuilder::get_widths.                                                *)
(***************************************************************************)
MaxOf(S) == IF S = {} THEN 0 ELSE CHOOSE m \in S : \A x \in S : x <= m

\* usize::MAX, the initial next_width.  It is only ever the right operand of
\* min(expand_width, next_width - min_width), so any value above every width
\* the model reaches acts as it does; TLC's integers end at 2^31 - 1.
usize_MAX == 2147483647

\* simple_widths with `*e = min(*e, c.width)` in place of max.
simple_widths_min(g) == [i \in 1..g.columns |-> 0]

\* First loop: widths of the colspan = 1 cells, max-reduced per column.
simple_widths(g) ==
    LET refs == AllCellRefs(g)
    IN [i \in 1..g.columns |->
          MaxOf({c.width : c \in {x \in refs : x.colspan = 1 /\ x.column = i - 1}})]

\* First loop: the HashMap keyed by ColRange { colspan, column }.
block_keys(g) ==
    {[colspan |-> c.colspan, column |-> c.column] : c \in {x \in AllCellRefs(g) : x.colspan # 1}}

block_of(g, key) ==
    [stretch |-> stretch_count(g, key.column, key.colspan),
     colspan |-> key.colspan,
     column |-> key.column,
     width |-> MaxOf({c.width : c \in {x \in AllCellRefs(g) :
                          x.colspan = key.colspan /\ x.column = key.column}})]

\* an order on Block that looks at column before colspan
Block_lt_column_first(a, b) ==
    \/ a.stretch < b.stretch
    \/ a.stretch = b.stretch /\ a.column < b.column
    \/ a.stretch = b.stretch /\ a.column = b.column /\ a.colspan < b.colspan
    \/ a.stretch = b.stretch /\ a.column = b.column /\ a.colspan = b.colspan
       /\ a.width < b.width

\* derive(PartialOrd, Ord) for Block: lexicographic in the order of the fields.
Block_lt(a, b) ==
    \/ a.stretch < b.stretch
    \/ a.stretch = b.stretch /\ a.colspan < b.colspan
    \/ a.stretch = b.stretch /\ a.colspan = b.colspan /\ a.column < b.column
    \/ a.stretch = b.stretch /\ a.colspan = b.colspan /\ a.column = b.column
       /\ a.width < b.width

\* The orders in which `blocks.into_iter()` can yield the entries of the
\* HashMap: std's HashMap iterates in an order that its per-instance random
\* hasher decides, so every permutation of the keys is possible.
iteration_orders(g) ==
    LET K == block_keys(g)
    IN {q \in [1..Cardinality(K) -> K] : \A i, j \in DOMAIN q : i # j => q[i] # q[j]}

\* blocks.sort(): a stable sort, as an insertion sort.
RECURSIVE sort_insert(_, _)
sort_insert(sorted, x) ==
    IF sorted = <<>> THEN <<x>>
    ELSE IF Block_lt(x, Head(sorted)) THEN <<x>> \o sorted
    ELSE <<Head(sorted)>> \o sort_insert(Tail(sorted), x)

\* sort_blocks without the sort: the blocks in the order the map yields them.
sort_blocks_none(q) == q

RECURSIVE sort_blocks(_)
sort_blocks(q) ==
    IF q = <<>> THEN <<>>
    ELSE sort_insert(sort_blocks(SubSeq(q, 1, Len(q) - 1)), q[Len(q)])

\* The sorted Vec<Block>, the HashMap having been iterated in `order`.
blocks(g, order) == sort_blocks([i \in DOMAIN order |-> block_of(g, order[i])])

\* `start` of a block
block_start(g, b) ==
    IF b.stretch = 0 THEN b.column
    ELSE CHOOSE c \in b.column..(b.column + b.colspan - 1) :
            /\ column_style(g, c).stretch
            /\ \A d \in b.column..(c - 1) : ~column_style(g, d).stretch

\* scan_columns without the test `b.stretch == 0 || self.column_style(column).stretch`.
RECURSIVE scan_columns_any(_, _, _, _, _)
scan_columns_any(g, widths, b, column, st) ==
    IF column >= b.column + b.colspan THEN st
    ELSE LET w == At(widths, column)
             st1 == IF w < st.min_width
                    THEN [expand_cols |-> <<>>, min_width |-> w,
                          next_width |-> st.min_width]
                    ELSE st
             st2 == IF w = st1.min_width
                    THEN [st1 EXCEPT !.expand_cols = Append(@, column)]
                    ELSE st1
         IN scan_columns_any(g, widths, b, column + 1, st2)

\* The scan `for column in start + 1..b.column + b.colspan`, from `column` on;
\* st is [expand_cols, min_width, next_width].
RECURSIVE scan_columns(_, _, _, _, _)
scan_columns(g, widths, b, column, st) ==
    IF column >= b.column + b.colspan THEN st
    ELSE IF b.stretch = 0 \/ column_style(g, column).stretch
    THEN LET w == At(widths, column)
             st1 == IF w < st.min_width
                    THEN [expand_cols |-> <<>>, min_width |-> w,
                          next_width |-> st.min_width]
                    ELSE st
             st2 == IF w = st1.min_width
                    THEN [st1 EXCEPT !.expand_cols = Append(@, column)]
                    ELSE st1
         IN scan_columns(g, widths, b, column + 1, st2)
    ELSE scan_columns(g, widths, b, column + 1, st)

\* expand_columns that gives each column one more than the whole shortfall
RECURSIVE expand_columns_all(_, _, _, _)
expand_columns_all(b, st, i, ws) ==
    IF i >= Len(st.expand_cols) THEN ws
    ELSE LET expand_width_all == b.width - ws.width_sum
             expand_width == Min(expand_width_all + 1, st.next_width - st.min_width)
             col == At(st.expand_cols, i)
         IN expand_columns_all(b, st, i + 1,
               [widths |-> [ws.widths EXCEPT ![col + 1] = @ + expand_width],
                width_sum |-> ws.width_sum + expand_width])

\* The loop `for i in 0..expand_cols.len()`, from i on; ws is [widths, width_sum].
RECURSIVE expand_columns(_, _, _, _)
expand_columns(b, st, i, ws) ==
    IF i >= Len(st.expand_cols) THEN ws
    ELSE LET count == Len(st.expand_cols) - i
             expand_width_all == b.width - ws.width_sum
             expand_width0 == (expand_width_all + count - 1) \div count
             expand_width == Min(expand_width0, st.next_width - st.min_width)
             col == At(st.expand_cols, i)
         IN expand_columns(b, st, i + 1,
               [widths |-> [ws.widths EXCEPT ![col + 1] = @ + expand_width],
                width_sum |-> ws.width_sum + expand_width])

\* One iteration of `while width_sum < b.width`.
expand_step(g, b, ws) ==
    LET start == block_start(g, b)
        st == scan_columns(g, ws.widths, b, start + 1,
                 [expand_cols |-> <<start>>, min_width |-> At(ws.widths, start),
                  next_width |-> usize_MAX])
    IN expand_columns(b, st, 0, ws)

\* expand_while with `if` in place of `while`: one round of growth per block.
expand_if(g, b, ws) ==
    IF ws.width_sum < b.width THEN expand_step(g, b, ws) ELSE ws

\* `while width_sum < b.width { ... }`
RECURSIVE expand_while(_, _, _)
expand_while(g, b, ws) ==
    IF ws.width_sum < b.width THEN expand_while(g, b, expand_step(g, b, ws)) ELSE ws

\* The body of `for b in blocks`.
process_block(g, widths, b) ==
    expand_while(g, b,
        [widths |-> widths, width_sum |-> get_width(g, widths, b.column, b.colspan)]).widths

\* The widths after the first n blocks have been processed.
RECURSIVE widths_after(_, _, _)
widths_after(g, order, n) ==
    IF n = 0 THEN simple_widths(g)
    ELSE process_block(g, widths_after(g, order, n - 1), blocks(g, order)[n])

get_widths(g, order) == widths_after(g, order, Len(order))

(***************************************************************************)
(* impl Display for GridBuilder.  The output is the sequence of its lines, *)
(* each a sequence of characters.                                          *)
(***************************************************************************)
\* The `match c.style.align_h.unwrap_or(Left)` of a content cell.
fmt_aligned(c, p) ==
    LET a == IF c.style = NoAlign THEN Left ELSE c.style
    IN IF a = Left THEN c.s \o Rep(" ", p)
       ELSE IF a = Right THEN Rep(" ", p) \o c.s
       ELSE LET lp == p \div 2
                rp == p - lp
            IN Rep(" ", lp) \o c.s \o Rep(" ", rp)

\* The body of `for c in self.row(row)`.
fmt_cell(g, widths, c) ==
    LET w == get_width(g, widths, c.column, c.colspan)
        p == w - c.width
    IN (IF has_left_padding(g, c.column) THEN <<" ">> ELSE <<>>)
       \o fmt_aligned(c, p)
       \o (IF has_right_padding(g, c.column + c.colspan - 1) THEN <<" ">> ELSE <<>>)
       \o (IF has_border(g, c.column + c.colspan) THEN <<"|">> ELSE <<>>)

\* A content line.
fmt_row(g, widths, r) ==
    LET cs == row(g, r)
    IN (IF has_border(g, 0) THEN <<"|">> ELSE <<>>)
       \o Concat([i \in 1..Len(cs) |-> fmt_cell(g, widths, cs[i])])

\* GridBuilder::row as a Cursor that has not moved: [column, idx, end].
cursor(g, r) == [column |-> 0, idx |-> cells_idx_of(g, r), end |-> cells_idx_of(g, r + 1)]

\* `while c.column <= column && c.next().is_some() {}`
RECURSIVE cursor_advance(_, _, _)
cursor_advance(g, c, column) ==
    IF c.column <= column /\ c.idx # c.end
    THEN cursor_advance(g,
            [c EXCEPT !.column = @ + At(g.cells, c.idx).colspan, !.idx = @ + 1], column)
    ELSE c

\* The separator line that prints the divider when any one of the cursors
\* stands at the boundary.
RECURSIVE fmt_separator_from_any(_, _, _, _)
fmt_separator_from_any(g, widths, column, cs) ==
    IF column >= Len(widths) THEN <<>>
    ELSE LET cs1 == [i \in DOMAIN cs |-> cursor_advance(g, cs[i], column)]
         IN (IF has_left_padding(g, column) THEN <<"-">> ELSE <<>>)
            \o Rep("-", At(widths, column))
            \o (IF has_right_padding(g, column) THEN <<"-">> ELSE <<>>)
            \o (IF has_border(g, column + 1)
                THEN (IF \E i \in DOMAIN cs1 : cs1[i].column = column + 1
                      THEN <<"|">> ELSE <<"-">>)
                ELSE <<>>)
            \o fmt_separator_from_any(g, widths, column + 1, cs1)

\* The separator line under row r, from `column` on; cs is the set of the
\* cursors of [self.row(row), self.row(row + 1)] that are Some.
RECURSIVE fmt_separator_from(_, _, _, _)
fmt_separator_from(g, widths, column, cs) ==
    IF column >= Len(widths) THEN <<>>
    ELSE LET cs1 == [i \in DOMAIN cs |-> cursor_advance(g, cs[i], column)]
         IN (IF has_left_padding(g, column) THEN <<"-">> ELSE <<>>)
            \o Rep("-", At(widths, column))
            \o (IF has_right_padding(g, column) THEN <<"-">> ELSE <<>>)
            \o (IF has_border(g, column + 1)
                THEN (IF \A i \in DOMAIN cs1 : cs1[i].column = column + 1
                      THEN <<"|">> ELSE <<"-">>)
                ELSE <<>>)
            \o fmt_separator_from(g, widths, column + 1, cs1)

fmt_separator(g, widths, r) ==
    fmt_separator_from(g, widths, 0,
        IF r + 1 < Len(g.rows) THEN <<cursor(g, r), cursor(g, r + 1)>>
        ELSE <<cursor(g, r)>>)

\* `let p = width - c.width` is a usize subtraction: it cannot go below zero.
fmt_underflows(g, order) ==
    LET widths == get_widths(g, order)
    IN \E c \in AllCellRefs(g) : get_width(g, widths, c.column, c.colspan) < c.width

\* <Display for GridBuilder>::fmt
Display_fmt(g, order) ==
    IF fmt_underflows(g, order) THEN <<<<"panic">>>>
    ELSE LET widths == get_widths(g, order)
         IN Concat([i \in 1..Len(g.rows) |->
               <<fmt_row(g, widths, i - 1)>>
               \o (IF g.rows[i].has_separator
                   THEN <<fmt_separator(g, widths, i - 1)>> ELSE <<>>)])

(***************************************************************************)
(* The builder driven directly: GridBuilder::new, then any sequence of     *)
(* push, push_separator, assignments to the public column_styles field,    *)
(* and Display::fmt.                                                       *)
(***************************************************************************)
NoOutput == <<<<"not rendered">>>>

RECURSIVE SumCalls(_)
SumCalls(calls) == IF calls = <<>> THEN 0 ELSE Head(calls).colspan + SumCalls(Tail(calls))

\* The calls a closure given to GridBuilder::push makes on the RowBuilder:
\* at most n calls of push_with_colspan, each with a colspan in lo..n, asking
\* for at most n columns in all.
RowCalls(lo, n) ==
    UNION { {q \in [1..k -> [cell : RawCells, colspan : lo..n]] : SumCalls(q) <= n}
            : k \in 0..n }

\* The vectors a caller assigns to column_styles.
StyleVectors == UNION { [1..n -> ColumnStyleInputs] : n \in 0..MaxStyles }

SetGrid(g) ==
    /\ s' = g.s
    /\ cells' = g.cells
    /\ rows' = g.rows
    /\ columns' = g.columns
    /\ column_styles' = g.column_styles

Init ==
    /\ s = GridBuilder_new.s
    /\ cells = GridBuilder_new.cells
    /\ rows = GridBuilder_new.rows
    /\ columns = GridBuilder_new.columns
    /\ column_styles = GridBuilder_new.column_styles
    /\ schema = <<>>
    /\ target = 0
    /\ out = NoOutput

\* g.push(|b| { ... }), the closure drawn from `inputs`
PushFrom(inputs) ==
    /\ Len(rows) < MaxRows
    /\ \E calls \in inputs : SetGrid(GridBuilder_push(Grid, calls))
    /\ out' = NoOutput
    /\ UNCHANGED <<schema, target>>

Push == PushFrom(RowCalls(0, MaxColumns))

\* g.push_separator()
PushSeparator ==
    /\ SetGrid(push_separator(Grid))
    /\ out' = NoOutput
    /\ UNCHANGED <<schema, target>>

\* g.column_styles = ...
SetColumnStyles ==
    /\ \E st \in StyleVectors : column_styles' = st
    /\ out' = NoOutput
    /\ UNCHANGED <<s, cells, rows, columns, schema, target>>

\* format!("{g}")
Fmt ==
    /\ \E order \in iteration_orders(Grid) : out' = Display_fmt(Grid, order)
    /\ UNCHANGED <<s, cells, rows, columns, column_styles, schema, target>>

Next == Push \/ PushSeparator \/ SetColumnStyles \/ Fmt

Spec == Init /\ [][Next]_vars

(***************************************************************************)
(* The same builder with wider rows, so that spanning cells overlap: rows   *)
(* of up to MaxSpanColumns columns, column styles and Display::fmt.        *)
(* push_separator is left to Spec: get_widths does not read has_separator. *)
(***************************************************************************)
PushWide == PushFrom(RowCalls(1, MaxSpanColumns))

NextWide == PushWide \/ SetColumnStyles \/ Fmt

SpecWide == Init /\ [][NextWide]_vars

(***************************************************************************)
(* A schema: what a Cells::fmt does with the CellsFormatter it is given,   *)
(* as a sequence of declarations.  A declaration is content (a leaf),      *)
(* column_with (a group), or one of the scopes filter, try_map_with and    *)
(* stretch; all but the leaf hold the declarations made inside them,       *)
(* possibly none.  column(header, f) is column_with(header, |cf|           *)
(* cf.content(f)) in the source and is written so here.                    *)
(***************************************************************************)
Decl(kind, body) == [kind |-> kind, body |-> body]

LeafKinds == {"content"}

ScopeKinds == {"column_with", "filter", "try_map_with", "stretch"}

RECURSIVE Trees(_), Forests(_)
\* the declarations made of exactly n declarations in all
Trees(n) ==
    (IF n = 1 THEN {Decl(k, <<>>) : k \in LeafKinds} ELSE {})
    \cup (IF n >= 1 THEN {Decl(k, b) : k \in ScopeKinds, b \in Forests(n - 1)} ELSE {})

\* the sequences of declarations made of exactly n declarations in all
Forests(n) ==
    IF n = 0 THEN {<<>>}
    ELSE UNION { {<<t>> \o f : t \in Trees(k), f \in Forests(n - k)} : k \in 1..n }

Schemas == UNION { Forests(n) : n \in 0..MaxNodes }

RECURSIVE NodeCount(_)
NodeCount(nodes) ==
    IF nodes = <<>> THEN 0
    ELSE 1 + NodeCount(Head(nodes).body) + NodeCount(Tail(nodes))

\* the declarations, by their place in the order they are made, that take no
\* closure over the source: column_with and stretch
RECURSIVE NoClosure(_, _)
NoClosure(nodes, pos) ==
    IF nodes = <<>> THEN {}
    ELSE (IF Head(nodes).kind \in {"column_with", "stretch"} THEN {pos + 1} ELSE {})
         \cup NoClosure(Head(nodes).body, pos + 1)
         \cup NoClosure(Tail(nodes), pos + 1 + NodeCount(Head(nodes).body))

\* A source value, as what the closures of the schema make of it: one
\* boolean for each declaration, in the order the declarations are made.
\* For a leaf it chooses the cell, for filter whether the predicate holds,
\* for try_map_with whether the result is Ok; for a declaration without a
\* closure it is TRUE.
Sources(nodes) ==
    { src \in [1..NodeCount(nodes) -> BOOLEAN] : \A p \in NoClosure(nodes, 0) : src[p] }

\* the cell a leaf's closure returns
LeafCell(bit) ==
    IF bit THEN RawCell(<<"W">>, NoAlign, Right) ELSE RawCell(LongText, Center, Left)

\* the Err value of a try_map_with
ErrCell == RawCell(<<"e", "r", "r">>, NoAlign, Left)

\* the header of the group declared pos-th: pos letters
HeaderCell(pos) == RawCell(Rep("h", pos), NoAlign, Left)

\* None as a cell: impl RawCell for Option
Cell_none == RawCell(<<>>, NoAlign, NoAlign)

(***************************************************************************)
(* CellsFormatter: the calls on the CellsWrite sink that a schema makes.   *)
(* some is whether the formatter's d is Some; src is the source value;     *)
(* pos is the number of declarations made before.                          *)
(***************************************************************************)
Call(op, cell, is_some, stretch) ==
    [op |-> op, cell |-> cell, is_some |-> is_some, stretch |-> stretch]

\* content_cell that makes no call on the sink when d is None
content_cell_skip(some, cell, stretch) ==
    IF some THEN <<Call("content", cell, some, stretch)>> ELSE <<>>

\* CellsFormatter::content_cell
content_cell(some, cell, stretch) ==
    <<Call("content", IF some THEN cell ELSE Cell_none, some, stretch)>>

RECURSIVE Cells_fmt(_, _, _, _, _), Decl_fmt(_, _, _, _, _)
Cells_fmt(nodes, some, src, stretch, pos) ==
    IF nodes = <<>> THEN <<>>
    ELSE Decl_fmt(Head(nodes), some, src, stretch, pos + 1)
         \o Cells_fmt(Tail(nodes), some, src, stretch,
                      pos + 1 + NodeCount(Head(nodes).body))

\* Decl_fmt whose try_map_with hands the formatter's own d to `ok`, so that
\* the declarations inside are made for a value also under an Err
Decl_fmt_keep(node, some, src, stretch, pos) ==
    LET bit == some /\ src[pos]
        inner(d, st) == Cells_fmt(node.body, d, src, st, pos)
        leaf == content_cell(some, LeafCell(bit), stretch)
        column_start == <<Call("column_start", HeaderCell(pos), TRUE, FALSE)>>
        column_end == <<Call("column_end", HeaderCell(pos), TRUE, FALSE)>>
    IN CASE node.kind = "content" -> leaf
         [] node.kind = "column_with" -> column_start \o inner(some, stretch) \o column_end
         [] node.kind = "filter" -> inner(bit, stretch)
         [] node.kind = "stretch" -> inner(some, TRUE)
         [] node.kind = "try_map_with" ->
              LET err == some /\ ~src[pos]
              IN (IF err THEN <<Call("content_start", ErrCell, TRUE, FALSE)>> ELSE <<>>)
                 \o inner(some, stretch)
                 \o (IF err THEN <<Call("content_end", ErrCell, TRUE, FALSE)>> ELSE <<>>)

\* one declaration, the pos-th
Decl_fmt(node, some, src, stretch, pos) ==
    LET bit == some /\ src[pos]
        inner(d, st) == Cells_fmt(node.body, d, src, st, pos)
        leaf == content_cell(some, LeafCell(bit), stretch)
        column_start == <<Call("column_start", HeaderCell(pos), TRUE, FALSE)>>
        column_end == <<Call("column_end", HeaderCell(pos), TRUE, FALSE)>>
    IN CASE node.kind = "content" -> leaf
         [] node.kind = "column_with" -> column_start \o inner(some, stretch) \o column_end
         [] node.kind = "filter" -> inner(bit, stretch)
         [] node.kind = "stretch" -> inner(some, TRUE)
         [] node.kind = "try_map_with" ->
              LET err == some /\ ~src[pos]
              IN (IF err THEN <<Call("content_start", ErrCell, TRUE, FALSE)>> ELSE <<>>)
                 \o inner(bit, stretch)
                 \o (IF err THEN <<Call("content_end", ErrCell, TRUE, FALSE)>> ELSE <<>>)

\* schema.fmt(&mut CellsFormatter::new(w, None))
fmt_none(nodes) == Cells_fmt(nodes, FALSE, <<>>, FALSE, 0)

\* schema.fmt(&mut CellsFormatter::new(w, Some(source)))
fmt_some(nodes, src) == Cells_fmt(nodes, TRUE, src, FALSE, 0)

(***************************************************************************)
(* The three CellsWrite sinks.  Each is a record that names its sink; a    *)
(* writer over a RowBuilder collects in b the calls it makes on it.        *)
(***************************************************************************)
GridLayout_new == [sink |-> "GridLayout", depth |-> 0, depth_max |-> 0, styles |-> <<>>]

\* set_column_end_style that marks nothing
set_column_end_style_none(w) == w

\* GridLayout::set_column_end_style
set_column_end_style(w) ==
    IF w.styles # <<>>
    THEN [w EXCEPT !.styles[Len(w.styles)].column_end = TRUE]
    ELSE w

\* GridLayout that takes the maximum before it counts the group entered
GridLayout_call_stale(w, c) ==
    CASE c.op = "content" ->
           [w EXCEPT !.styles = Append(@, ColumnStyle(FALSE, c.stretch))]
      [] c.op = "column_start" ->
           LET w1 == set_column_end_style(w)
           IN [w1 EXCEPT !.depth = @ + 1, !.depth_max = Max(@, w1.depth)]
      [] c.op = "column_end" ->
           set_column_end_style([w EXCEPT !.depth = @ - 1])
      [] OTHER -> w

\* impl CellsWrite for GridLayout
GridLayout_call(w, c) ==
    CASE c.op = "content" ->
           [w EXCEPT !.styles = Append(@, ColumnStyle(FALSE, c.stretch))]
      [] c.op = "column_start" ->
           LET w1 == set_column_end_style(w)
           IN [w1 EXCEPT !.depth = @ + 1, !.depth_max = Max(@, w1.depth + 1)]
      [] c.op = "column_end" ->
           set_column_end_style([w EXCEPT !.depth = @ - 1])
      [] OTHER -> w

HeaderWriter_new(t) ==
    [sink |-> "HeaderWriter", b |-> <<>>, depth |-> 0, target |-> t,
     column |-> 0, column_last |-> 0]

\* HeaderWriter::push_cell
HeaderWriter_push_cell(w, cell) ==
    [w EXCEPT
       !.b = Append(@, [cell |-> cell, colspan |-> w.column - w.column_last]),
       !.column_last = w.column]

\* Cell::new(header).with_base_style(style)
with_base_style(cell, style) ==
    RawCell(cell.text, CellStyle_or(cell.style, style), NoAlign)

\* HeaderWriter that compares depth with target before it leaves the group
HeaderWriter_call_late(w, c) ==
    CASE c.op = "content" -> [w EXCEPT !.column = @ + 1]
      [] c.op = "column_start" ->
           LET w1 == IF w.depth <= w.target THEN HeaderWriter_push_cell(w, Cell_empty)
                     ELSE w
           IN [w1 EXCEPT !.depth = @ + 1]
      [] c.op = "column_end" ->
           LET w1 == [w EXCEPT !.depth = @ - 1]
           IN IF w.depth = w.target
              THEN HeaderWriter_push_cell(w1, with_base_style(c.cell, Center))
              ELSE w1
      [] OTHER -> w

\* impl CellsWrite for HeaderWriter
HeaderWriter_call(w, c) ==
    CASE c.op = "content" -> [w EXCEPT !.column = @ + 1]
      [] c.op = "column_start" ->
           LET w1 == IF w.depth <= w.target THEN HeaderWriter_push_cell(w, Cell_empty)
                     ELSE w
           IN [w1 EXCEPT !.depth = @ + 1]
      [] c.op = "column_end" ->
           LET w1 == [w EXCEPT !.depth = @ - 1]
           IN IF w1.depth = w1.target
              THEN HeaderWriter_push_cell(w1, with_base_style(c.cell, Center))
              ELSE w1
      [] OTHER -> w

\* impl Drop for HeaderWriter: push_cell("")
HeaderWriter_drop(w) == HeaderWriter_push_cell(w, RawCell(<<>>, NoAlign, Left))

\* colspan is an Option: <<>> is None, <<n>> is Some(n)
BodyWriter_new == [sink |-> "BodyWriter", b |-> <<>>, colspan |-> <<>>, panicked |-> FALSE]

\* BodyWriter whose content pushes its cell between content_start and
\* content_end too
BodyWriter_call_unmerged(w, c) ==
    CASE w.panicked -> w
      [] c.op = "content" ->
           IF w.colspan # <<>>
           THEN [w EXCEPT !.colspan = <<@[1] + 1>>,
                          !.b = Append(@, [cell |-> c.cell, colspan |-> 1])]
           ELSE [w EXCEPT !.b = Append(@, [cell |-> c.cell, colspan |-> 1])]
      [] c.op = "content_start" ->
           IF w.colspan # <<>>
           THEN [w EXCEPT !.panicked = TRUE]
           ELSE [w EXCEPT !.colspan = <<0>>]
      [] c.op = "content_end" ->
           IF w.colspan = <<>>
           THEN [w EXCEPT !.panicked = TRUE]
           ELSE [w EXCEPT !.b = Append(@, [cell |-> c.cell, colspan |-> w.colspan[1]]),
                          !.colspan = <<>>]
      [] OTHER -> w

\* impl CellsWrite for BodyWriter
BodyWriter_call(w, c) ==
    CASE w.panicked -> w
      [] c.op = "content" ->
           IF w.colspan # <<>>
           THEN [w EXCEPT !.colspan = <<@[1] + 1>>]
           ELSE [w EXCEPT !.b = Append(@, [cell |-> c.cell, colspan |-> 1])]
      [] c.op = "content_start" ->
           IF w.colspan # <<>>
           THEN [w EXCEPT !.panicked = TRUE]
           ELSE [w EXCEPT !.colspan = <<0>>]
      [] c.op = "content_end" ->
           IF w.colspan = <<>>
           THEN [w EXCEPT !.panicked = TRUE]
           ELSE [w EXCEPT !.b = Append(@, [cell |-> c.cell, colspan |-> w.colspan[1]]),
                          !.colspan = <<>>]
      [] OTHER -> w

(***************************************************************************)
(* The sinks of write_csv (cells_csv_writer.rs).  They take the header at  *)
(* column_start and the merged cell at content_start, which this file      *)
(* calls merged_body_start.                                                *)
(***************************************************************************)
CsvHeaderWriter_new(separator) ==
    [sink |-> "CsvHeaderWriter", record |-> <<>>, value |-> <<>>, lens |-> <<>>,
     has_content |-> FALSE, separator |-> separator]

\* CsvHeaderWriter that writes the separator before every label
CsvHeaderWriter_call_always(w, c) ==
    CASE c.op = "content" -> [w EXCEPT !.has_content = TRUE]
      [] c.op = "column_start" ->
           [w EXCEPT !.lens = Append(@, Len(w.value)),
                     !.value = @ \o w.separator \o c.cell.text]
      [] c.op = "column_end" ->
           LET w1 == IF w.has_content
                     THEN [w EXCEPT !.record = Append(@, w.value), !.has_content = FALSE]
                     ELSE w
           IN [w1 EXCEPT !.value = SubSeq(@, 1, w.lens[Len(w.lens)]),
                         !.lens = SubSeq(@, 1, Len(@) - 1)]
      [] OTHER -> w

\* impl CellsWrite for CsvHeaderWriter
CsvHeaderWriter_call(w, c) ==
    CASE c.op = "content" -> [w EXCEPT !.has_content = TRUE]
      [] c.op = "column_start" ->
           [w EXCEPT !.lens = Append(@, Len(w.value)),
                     !.value = (IF @ # <<>> THEN @ \o w.separator ELSE @) \o c.cell.text]
      [] c.op = "column_end" ->
           LET w1 == IF w.has_content
                     THEN [w EXCEPT !.record = Append(@, w.value), !.has_content = FALSE]
                     ELSE w
           IN [w1 EXCEPT !.value = SubSeq(@, 1, w.lens[Len(w.lens)]),
                         !.lens = SubSeq(@, 1, Len(@) - 1)]
      [] OTHER -> w

CsvBodyWriter_new ==
    [sink |-> "CsvBodyWriter", record |-> <<>>, value |-> <<>>, is_merged |-> FALSE,
     has_content |-> FALSE]

\* impl CellsWrite for CsvBodyWriter
CsvBodyWriter_call(w, c) ==
    CASE c.op = "content" ->
           [w EXCEPT !.value = IF c.is_some THEN @ \o c.cell.text ELSE @,
                     !.has_content = TRUE]
      [] c.op = "content_start" ->
           [w EXCEPT !.is_merged = TRUE, !.value = @ \o c.cell.text]
      [] c.op = "content_end" -> [w EXCEPT !.is_merged = FALSE]
      [] c.op = "column_end" ->
           IF w.has_content
           THEN [w EXCEPT !.record = Append(@, w.value), !.value = <<>>,
                          !.has_content = FALSE]
           ELSE w
      [] OTHER -> w

\* a call through &mut dyn CellsWrite
CellsWrite_call(w, c) ==
    CASE w.sink = "GridLayout" -> GridLayout_call(w, c)
      [] w.sink = "HeaderWriter" -> HeaderWriter_call(w, c)
      [] w.sink = "BodyWriter" -> BodyWriter_call(w, c)
      [] w.sink = "CsvHeaderWriter" -> CsvHeaderWriter_call(w, c)
      [] w.sink = "CsvBodyWriter" -> CsvBodyWriter_call(w, c)

RECURSIVE CellsWrite_calls(_, _)
CellsWrite_calls(w, cs) ==
    IF cs = <<>> THEN w ELSE CellsWrite_calls(CellsWrite_call(w, Head(cs)), Tail(cs))

\* GridLayout::from_schema
GridLayout_from_schema(nodes) ==
    LET this == CellsWrite_calls(GridLayout_new, fmt_none(nodes))
    IN [this EXCEPT !.styles = SubSeq(@, 1, Len(@) - 1)]

\* the closure new_with_header gives to push, for one target
header_row(nodes, t) ==
    HeaderWriter_drop(CellsWrite_calls(HeaderWriter_new(t), fmt_none(nodes)))

\* RowBuilder::extend_with_schema
extend_with_schema(src, nodes) == CellsWrite_calls(BodyWriter_new, fmt_some(nodes, src))

(***************************************************************************)
(* The builder driven by a schema: GridBuilder::new_with_header, one       *)
(* iteration of its loop at a time, then body rows pushed with             *)
(* extend_with_schema.                                                     *)
(***************************************************************************)
\* new_with_header up to its loop: Self::new() with the layout's styles
InitSchema ==
    /\ schema \in Schemas
    /\ s = GridBuilder_new.s
    /\ cells = GridBuilder_new.cells
    /\ rows = GridBuilder_new.rows
    /\ columns = GridBuilder_new.columns
    /\ column_styles = GridLayout_from_schema(schema).styles
    /\ target = 0
    /\ out = NoOutput

\* one iteration of `for target in 0..layout.depth_max`
HeaderRow ==
    /\ target < GridLayout_from_schema(schema).depth_max
    /\ SetGrid(push_separator(GridBuilder_push(Grid, header_row(schema, target).b)))
    /\ target' = target + 1
    /\ UNCHANGED <<schema, out>>

\* g.push(|b| b.extend_with_schema(source, schema)), once the header is in place
PushRow ==
    /\ target = GridLayout_from_schema(schema).depth_max
    /\ Len(rows) < target + MaxBodyRows
    /\ \E src \in Sources(schema) :
          LET w == extend_with_schema(src, schema)
          IN /\ SetGrid(GridBuilder_push(Grid, w.b))
             /\ out' = IF w.panicked THEN <<<<"panic">>>> ELSE NoOutput
    /\ UNCHANGED <<schema, target>>

NextSchema == HeaderRow \/ PushRow

SpecSchema == InitSchema /\ [][NextSchema]_vars

(***************************************************************************)
(* Properties of the width reconciliation (SpecWide).                      *)
(***************************************************************************)
\* Whether block n (in processing order) is short of its width when its turn comes.
block_is_short(g, order, n) ==
    LET b == blocks(g, order)[n]
    IN get_width(g, widths_after(g, order, n - 1), b.column, b.colspan) < b.width

\* C1 - width monotonicity: whatever the order the block map is iterated in,
\* the width get_widths returns for the column of a cell with colspan = 1 is
\* at least that cell's display width.
C1_WidthMonotonicity ==
    \A order \in iteration_orders(Grid) :
        LET widths == get_widths(Grid, order)
        IN \A c \in AllCellRefs(Grid) :
              c.colspan = 1 => At(widths, c.column) >= c.width

\* A cell with colspan = 1 and text in it sits in a column that a spanning
\* block has grown beyond the widest such cell.
C1_Witness ==
    \E order \in iteration_orders(Grid) :
        \E c \in AllCellRefs(Grid) :
            /\ c.colspan = 1
            /\ c.width > 0
            /\ At(get_widths(Grid, order), c.column) > At(simple_widths(Grid), c.column)

\* C2 - span satisfaction: once get_widths has processed every block, every
\* cell with colspan > 1 fits: get_width over its columns is at least its
\* display width, for the cells of all blocks at once.
C2_SpanSatisfaction ==
    \A order \in iteration_orders(Grid) :
        LET widths == get_widths(Grid, order)
        IN \A c \in AllCellRefs(Grid) :
              c.colspan > 1 => get_width(Grid, widths, c.column, c.colspan) >= c.width

\* Two blocks that share a column, each short when its turn comes, the first
\* of them needing more than one round of growth.
C2_Witness ==
    \E order \in iteration_orders(Grid) :
        LET bs == blocks(Grid, order)
        IN /\ Len(bs) >= 2
           /\ block_is_short(Grid, order, 1)
           /\ block_is_short(Grid, order, 2)
           /\ bs[1].column + bs[1].colspan > bs[2].column
           /\ bs[2].column + bs[2].colspan > bs[1].column
           /\ LET b == bs[1]
                  ws == [widths |-> simple_widths(Grid),
                         width_sum |-> get_width(Grid, simple_widths(Grid),
                                                 b.column, b.colspan)]
              IN expand_step(Grid, b, ws).width_sum < b.width

\* C3 - stretch preference: processing a block that covers a stretch-flagged
\* column changes stretch-flagged columns of its span only, and only upwards;
\* every other column keeps the width it had before the block (with a single
\* block, the maximum of its colspan = 1 cells).
C3_StretchPreference ==
    \A order \in iteration_orders(Grid) :
        \A n \in 1..Len(order) :
            LET b == blocks(Grid, order)[n]
                before == widths_after(Grid, order, n - 1)
                after == widths_after(Grid, order, n)
            IN b.stretch > 0 =>
                 /\ \A col \in 0..(columns - 1) :
                       \/ At(after, col) = At(before, col)
                       \/ /\ At(after, col) > At(before, col)
                          /\ col \in b.column..(b.column + b.colspan - 1)
                          /\ column_style(Grid, col).stretch
                 /\ Len(order) = 1 =>
                       \A col \in b.column..(b.column + b.colspan - 1) :
                          ~column_style(Grid, col).stretch =>
                              At(get_widths(Grid, order), col) = At(simple_widths(Grid), col)

\* A block that is short when its turn comes and covers both a stretch-flagged
\* column and, after it, a column that is not.
C3_Witness ==
    \E order \in iteration_orders(Grid) :
        \E n \in 1..Len(order) :
            LET b == blocks(Grid, order)[n]
            IN /\ b.stretch > 0
               /\ block_is_short(Grid, order, n)
               /\ \E col \in (block_start(Grid, b) + 1)..(b.column + b.colspan - 1) :
                     ~column_style(Grid, col).stretch

(***************************************************************************)
(* Properties of the borders and of rendering.                             *)
(***************************************************************************)
\* The grid with the column_end flag of its rightmost column set to v.
with_last_column_end(g, v) ==
    [g EXCEPT !.column_styles =
        [i \in 1..Max(Len(g.column_styles), g.columns) |->
            IF i = g.columns THEN [column_style(g, i - 1) EXCEPT !.column_end = v]
            ELSE column_style(g, i - 1)]]

\* C4 as stated - border symmetry: in every reachable state, a grid whose rows
\* have no cells included, has_border(columns) is true and has_border(0) is false.
C4_BorderSymmetry_AsStated ==
    /\ has_border(Grid, columns)
    /\ ~has_border(Grid, 0)

\* C4 as amended - has_border(0) is false in every reachable state, and
\* has_border(columns) is true in every reachable state with at least one
\* column, whatever the column_end flag of the rightmost column; while the
\* grid has no column, has_border(columns) is has_border(0): false.
C4_BorderSymmetry ==
    /\ ~has_border(Grid, 0)
    /\ columns >= 1 =>
          /\ has_border(Grid, columns)
          /\ has_border(with_last_column_end(Grid, FALSE), columns)
          /\ has_border(with_last_column_end(Grid, TRUE), columns)
    /\ columns = 0 => ~has_border(Grid, columns)

\* A grid with columns whose rightmost column has column_end = false.
C4_Witness ==
    /\ columns >= 1
    /\ Len(column_styles) >= columns
    /\ ~column_style(Grid, columns - 1).column_end

\* C5 - render idempotence: a step that renders the grid leaves s, cells, rows,
\* columns and column_styles as they were, and when the grid had been rendered
\* already (and not changed since) the output is the same again.
C5_RenderIdempotence ==
    [][out' # NoOutput =>
          /\ UNCHANGED <<s, cells, rows, columns, column_styles>>
          /\ out # NoOutput => out' = out]_vars

\* A rendered grid with two spanning blocks of the same number of stretch
\* columns, so that the order they are processed in is the sort's doing.
C5_Witness ==
    /\ out # NoOutput
    /\ Cardinality(block_keys(Grid)) >= 2
    /\ \E order \in iteration_orders(Grid) :
          /\ block_is_short(Grid, order, 1)
          /\ block_is_short(Grid, order, 2)

(***************************************************************************)
(* What a schema declares, read off its declarations: groups, their depth  *)
(* and their leaves.                                                       *)
(***************************************************************************)
IsGroup(node) == node.kind = "column_with"

IsLeaf(node) == node.kind \in LeafKinds

RECURSIVE LeafCount(_)
LeafCount(nodes) ==
    IF nodes = <<>> THEN 0
    ELSE (IF IsLeaf(Head(nodes)) THEN 1 ELSE 0)
         + LeafCount(Head(nodes).body) + LeafCount(Tail(nodes))

\* the deepest nesting of groups
RECURSIVE NestingDepth(_)
NestingDepth(nodes) ==
    IF nodes = <<>> THEN 0
    ELSE Max((IF IsGroup(Head(nodes)) THEN 1 ELSE 0) + NestingDepth(Head(nodes).body),
             NestingDepth(Tail(nodes)))

\* the groups among the declarations: which declaration, how many groups
\* around it, how many leaves in it
RECURSIVE Groups(_, _, _)
Groups(nodes, pos, depth) ==
    IF nodes = <<>> THEN {}
    ELSE LET n == Head(nodes)
             d == IF IsGroup(n) THEN depth + 1 ELSE depth
         IN (IF IsGroup(n)
             THEN {[pos |-> pos + 1, depth |-> depth, leaves |-> LeafCount(<<n>>)]}
             ELSE {})
            \cup Groups(n.body, pos + 1, d)
            \cup Groups(Tail(nodes), pos + 1 + NodeCount(n.body), depth)

\* the labels of the groups at depth d that have a leaf inside
LabelsAtDepth(nodes, d) ==
    { HeaderCell(g.pos).text : g \in {x \in Groups(nodes, 0, 0) : x.depth = d /\ x.leaves > 0} }

\* the labels of the groups that have no leaf inside
EmptyGroupLabels(nodes) ==
    { HeaderCell(g.pos).text : g \in {x \in Groups(nodes, 0, 0) : x.leaves = 0} }

\* text and colspan of the CellRefs cr
RowOf(cr) == [i \in 1..Len(cr) |-> [text |-> cr[i].s, colspan |-> cr[i].colspan]]

\* the cells of row r: text and colspan
RowCells(g, r) == RowOf(row(g, r))

\* the texts in row r, the empty text excepted
RowTexts(g, r) == { RowCells(g, r)[i].text : i \in 1..Len(RowCells(g, r)) } \ {<<>>}

HasColspan(call) == call.colspan # 0

\* what a closure's calls on the RowBuilder leave in the row
Pushed(b) ==
    LET q == SelectSeq(b, HasColspan)
    IN [i \in 1..Len(q) |-> [text |-> q[i].cell.text, colspan |-> q[i].colspan]]

(***************************************************************************)
(* Properties of the header rows (SpecSchema).                             *)
(***************************************************************************)
\* C6 - header row count: the layout pass's depth_max is the deepest nesting
\* of groups in the schema; new_with_header pushes one row for each target
\* 0, 1, ..., depth_max - 1 in that order (row r of the grid is the row the
\* header writer makes for target r), depth_max rows when it is done, each
\* with its separator flag set; the rows pushed after them have none.
C6_HeaderRowCount ==
    LET dm == NestingDepth(schema)
    IN /\ GridLayout_from_schema(schema).depth_max = dm
       /\ target <= dm
       /\ IF target < dm THEN Len(rows) = target ELSE Len(rows) >= dm
       /\ \A r \in 1..Len(rows) : rows[r].has_separator <=> r <= target
       /\ \A r \in 0..(target - 1) : RowCells(Grid, r) = Pushed(header_row(schema, r).b)

\* new_with_header is done for a schema with groups inside groups.
C6_Witness ==
    /\ target = GridLayout_from_schema(schema).depth_max
    /\ target >= 2
    /\ Len(rows) = target
    /\ columns >= 1

\* C7 as stated - header row order: when new_with_header is done, the labels
\* of the outermost (depth 0) groups are in the last header row, the one
\* closest to the body, and the labels of the deepest groups in the first.
C7_HeaderRowOrder_AsStated ==
    LET dm == GridLayout_from_schema(schema).depth_max
    IN (target = dm /\ dm >= 1) =>
          /\ LabelsAtDepth(schema, 0) \subseteq RowTexts(Grid, dm - 1)
          /\ LabelsAtDepth(schema, dm - 1) \subseteq RowTexts(Grid, 0)

\* C7 as amended - header row order: header row r (counted from the top)
\* carries the labels of the groups at depth r that have a leaf inside, and
\* no other text; so the outermost labels are in the first (topmost) header
\* row and the deepest level's labels in the header row closest to the body.
C7_HeaderRowOrder ==
    \A r \in 0..(target - 1) : RowTexts(Grid, r) = LabelsAtDepth(schema, r)

\* new_with_header is done for a schema that has labelled groups with leaves
\* both at depth 0 and at its deepest level, the two in different rows.
C7_Witness ==
    /\ target = GridLayout_from_schema(schema).depth_max
    /\ target >= 2
    /\ LabelsAtDepth(schema, 0) # {}
    /\ LabelsAtDepth(schema, target - 1) # {}

(***************************************************************************)
(* Properties of the column count across the sinks (SpecSchema).           *)
(***************************************************************************)
\* the number of columns the cells of row r take
RowColspan(g, r) == SumColspan(SubSeq(g.cells, 1, cells_idx_of(g, r + 1)), cells_idx_of(g, r))

\* the column of the leaf that call i of cs is for
ContentColumn(cs, i) == Cardinality({j \in 1..(i - 1) : cs[j].op = "content"})

\* whether call i of cs is made between a content_start and its content_end
InMerge(cs, i) ==
    \E j \in 1..(i - 1) :
        /\ cs[j].op = "content_start"
        /\ \A k \in (j + 1)..(i - 1) : cs[k].op # "content_end"

\* whether row r of the grid is what extend_with_schema pushes for src
IsRowOf(r, src) == RowCells(Grid, r) = Pushed(extend_with_schema(src, schema).b)

\* what a BodyWriter fed the calls cs leaves in its row
BodyRow(cs) == Pushed(CellsWrite_calls(BodyWriter_new, cs).b)

\* whether the CellRefs cr have a blank cell of colspan 1 at the column of
\* call i of cs
BlankAt(cr, cs, i) ==
    \E n \in 1..Len(cr) :
        /\ cr[n].column = ContentColumn(cs, i)
        /\ cr[n].colspan = 1
        /\ cr[n].s = <<>>

\* C8 as stated - column-count synchronisation: the colspans of every header
\* row and of every body row sum to the number of leaves of the schema, and
\* in a body row every leaf whose value is absent has a blank cell of
\* colspan 1 at its column.
C8_ColumnCountSync_AsStated ==
    /\ \A r \in 0..(Len(rows) - 1) : RowColspan(Grid, r) = LeafCount(schema)
    /\ \A r \in target..(Len(rows) - 1) :
          LET cr == row(Grid, r)
              rc == RowOf(cr)
          IN \A src \in Sources(schema) :
                LET cs == fmt_some(schema, src)
                IN rc = BodyRow(cs) =>
                      \A i \in 1..Len(cs) :
                         (cs[i].op = "content" /\ ~cs[i].is_some) => BlankAt(cr, cs, i)

\* C8 as amended - column-count synchronisation: the colspans of every header
\* row and of every body row sum to the number of leaves of the schema, which
\* is the grid's column count once it has a row; in a body row a leaf whose
\* value is absent has a blank cell of colspan 1 at its column unless it is
\* declared inside a try_map_with whose result is Err, where it has no cell
\* of its own.
C8_ColumnCountSync ==
    /\ \A r \in 0..(Len(rows) - 1) : RowColspan(Grid, r) = LeafCount(schema)
    /\ rows # <<>> => columns = LeafCount(schema)
    /\ \A r \in target..(Len(rows) - 1) :
          LET cr == row(Grid, r)
              rc == RowOf(cr)
          IN \A src \in Sources(schema) :
                LET cs == fmt_some(schema, src)
                IN rc = BodyRow(cs) =>
                      \A i \in 1..Len(cs) :
                         (cs[i].op = "content" /\ ~cs[i].is_some) =>
                             IF InMerge(cs, i)
                             THEN \A n \in 1..Len(cr) :
                                     cr[n].column = ContentColumn(cs, i)
                                         => cr[n].s = ErrCell.text
                             ELSE BlankAt(cr, cs, i)

\* A grid with a header row and a body row for a source that a filter
\* removes: the row has a blank cell for a leaf outside any merge.
C8_Witness ==
    /\ target >= 1
    /\ Len(rows) > target
    /\ columns >= 1
    /\ \E src \in Sources(schema) :
          /\ IsRowOf(target, src)
          /\ LET cs == fmt_some(schema, src)
             IN \E i \in 1..Len(cs) :
                   cs[i].op = "content" /\ ~cs[i].is_some /\ ~InMerge(cs, i)

\* C9 as stated - empty group header slot: when the schema has a group with
\* no leaf inside, every header row has a cell for it, a cell that covers no
\* leaf column: one of colspan 0, or one that takes the row beyond the
\* columns of the leaves.
C9_EmptyGroupSlot_AsStated ==
    EmptyGroupLabels(schema) # {} =>
        \A r \in 0..(target - 1) :
            \/ \E i \in 1..Len(RowCells(Grid, r)) : RowCells(Grid, r)[i].colspan = 0
            \/ RowColspan(Grid, r) > LeafCount(schema)

\* C9 as amended - a group with no leaf inside has no cell in any header
\* row: no header cell carries its label, every header cell covers at least
\* one leaf column, and the colspans of the row sum to the number of leaves.
C9_EmptyGroupSlot ==
    \A r \in 0..(target - 1) :
        /\ RowTexts(Grid, r) \cap EmptyGroupLabels(schema) = {}
        /\ \A i \in 1..Len(RowCells(Grid, r)) : RowCells(Grid, r)[i].colspan >= 1
        /\ RowColspan(Grid, r) = LeafCount(schema)

\* new_with_header is done for a schema that has a group with no leaf at the
\* depth of a header row, next to a leaf.
C9_Witness ==
    /\ target = GridLayout_from_schema(schema).depth_max
    /\ target >= 1
    /\ \E g \in Groups(schema, 0, 0) : g.leaves = 0 /\ g.depth = 0
    /\ LeafCount(schema) >= 1

(***************************************************************************)
(* Properties of the merged mode of the body sink (SpecSchema).            *)
(***************************************************************************)
\* the content_end that closes the content_start made as call i of cs
MergeEnd(cs, i) ==
    CHOOSE j \in (i + 1)..Len(cs) :
        /\ cs[j].op = "content_end"
        /\ \A k \in (i + 1)..(j - 1) : cs[k].op # "content_end"

\* the content calls made between call i of cs, a content_start, and its end
MergedCount(cs, i) ==
    Cardinality({m \in (i + 1)..(MergeEnd(cs, i) - 1) : cs[m].op = "content"})

\* the calls of cs that leave a cell in a body row
CellCalls(cs) ==
    { i \in 1..Len(cs) :
        \/ cs[i].op = "content" /\ ~InMerge(cs, i)
        \/ cs[i].op = "content_start" /\ MergedCount(cs, i) >= 1 }

\* C10 - merged body mode: in a body row, the k >= 1 content calls made
\* between a content_start and its content_end leave no cell of their own,
\* and the content_end leaves exactly one cell, of colspan k, with the text of
\* the cell it was given, at the column of the first of them; so a source
\* that is an Err makes a row of one cell that spans all the leaf columns of
\* the schema of the Ok value.
C10_MergedBodyMode ==
    \A r \in target..(Len(rows) - 1) :
        LET cr == row(Grid, r)
            rc == RowOf(cr)
        IN \A src \in Sources(schema) :
              LET cs == fmt_some(schema, src)
              IN rc = BodyRow(cs) =>
                    /\ Len(cr) = Cardinality(CellCalls(cs))
                    /\ \A i \in 1..Len(cs) :
                          (cs[i].op = "content_start" /\ MergedCount(cs, i) >= 1) =>
                             LET k == MergedCount(cs, i)
                                 col == ContentColumn(cs, i)
                             IN /\ \E n \in 1..Len(cr) :
                                      /\ cr[n].column = col
                                      /\ cr[n].colspan = k
                                      /\ cr[n].s = cs[MergeEnd(cs, i)].cell.text
                                /\ \A n \in 1..Len(cr) :
                                      cr[n].column \notin (col + 1)..(col + k - 1)
                    /\ ( /\ Len(schema) = 1
                         /\ schema[1].kind = "try_map_with"
                         /\ ~src[1]
                         /\ LeafCount(schema) >= 1 ) =>
                          rc = <<[text |-> ErrCell.text, colspan |-> LeafCount(schema)]>>

\* A body row for a source that is an Err, in a schema whose Ok value has two
\* leaves: one cell with the Err's text over both columns.
C10_Witness ==
    /\ Len(rows) > target
    /\ Len(schema) = 1
    /\ schema[1].kind = "try_map_with"
    /\ LeafCount(schema) >= 2
    /\ RowCells(Grid, target) = <<[text |-> ErrCell.text, colspan |-> LeafCount(schema)]>>

(***************************************************************************)
(* Properties of the rendered lines (Spec).                                *)
(***************************************************************************)
Panicked == <<<<"panic">>>>

\* whether `out` holds the lines of the grid as it stands
Rendered == out # NoOutput /\ out # Panicked

\* the place in the output of the content line of row r (lines counted from 1)
ContentLine(g, r) == r + 1 + Cardinality({x \in 1..r : g.rows[x].has_separator})

\* the place in the output of the separator line under row r
SeparatorLine(g, r) == ContentLine(g, r) + 1

\* the characters a separator line has up to and with the one for boundary n,
\* n >= 1: padding, dashes and boundary characters of the columns before it
RECURSIVE BoundaryPos(_, _, _)
BoundaryPos(g, widths, n) ==
    IF n = 0 THEN 0
    ELSE BoundaryPos(g, widths, n - 1)
         + (IF has_left_padding(g, n - 1) THEN 1 ELSE 0)
         + At(widths, n - 1)
         + (IF has_right_padding(g, n - 1) THEN 1 ELSE 0)
         + (IF has_border(g, n) THEN 1 ELSE 0)

\* the rows a separator under row r looks at: r and the row below, if any
RowsAround(g, r) == {r} \cup (IF r + 1 < Len(g.rows) THEN {r + 1} ELSE {})

\* whether a cell of row x ends exactly at boundary n
BreaksAt(g, x, n) ==
    \E i \in 1..Len(row(g, x)) : row(g, x)[i].column + row(g, x)[i].colspan = n

\* whether a cell of row x spans across boundary n
SpansAcross(g, x, n) ==
    \E i \in 1..Len(row(g, x)) :
        /\ row(g, x)[i].column < n
        /\ n < row(g, x)[i].column + row(g, x)[i].colspan

\* the rows with a separator line under them
SeparatorRows(g) == {r \in 0..(Len(g.rows) - 1) : g.rows[r + 1].has_separator}

\* C11 as stated - separator divider rule: in the separator line under a row,
\* at every boundary that has a border the character is '|' if and only if
\* neither the row above nor the row below has a cell spanning across the
\* boundary, and '-' otherwise; rows that cover fewer columns included.
C11_SeparatorDivider_AsStated ==
    Rendered =>
       \A order \in iteration_orders(Grid) : \A r \in SeparatorRows(Grid) :
          \A n \in 1..columns :
             has_border(Grid, n) =>
                out[SeparatorLine(Grid, r)][BoundaryPos(Grid, get_widths(Grid, order), n)]
                   = IF \A x \in RowsAround(Grid, r) : ~SpansAcross(Grid, x, n)
                     THEN "|" ELSE "-"

\* C11 as amended - separator divider rule: in the separator line under a row,
\* at every boundary that has a border the character is '|' if and only if
\* the row above and the row below (when there is one) each have a cell that
\* ends exactly at the boundary, and '-' otherwise; so the character is '-'
\* under a spanning cell and also at a boundary beyond the last cell of a row
\* that covers fewer columns.
C11_SeparatorDivider ==
    Rendered =>
       \A order \in iteration_orders(Grid) : \A r \in SeparatorRows(Grid) :
          \A n \in 1..columns :
             has_border(Grid, n) =>
                out[SeparatorLine(Grid, r)][BoundaryPos(Grid, get_widths(Grid, order), n)]
                   = IF \A x \in RowsAround(Grid, r) : BreaksAt(Grid, x, n)
                     THEN "|" ELSE "-"

\* A rendered grid with a separator between two rows, one of which has a cell
\* spanning across a boundary with a border where the other one breaks.
C11_Witness ==
    /\ Rendered
    /\ \E r \in SeparatorRows(Grid) : \E n \in 1..(columns - 1) :
          /\ r + 1 < Len(rows)
          /\ has_border(Grid, n)
          /\ \E x, y \in RowsAround(Grid, r) :
                SpansAcross(Grid, x, n) /\ BreaksAt(Grid, y, n)

\* column_styles[n - 1].column_end, true when the style is absent
ColumnEnd(g, n) ==
    IF n - 1 < Len(g.column_styles) THEN g.column_styles[n].column_end ELSE TRUE

\* the interior boundaries among lo..hi whose column_end is true
Dividers(g, lo, hi) == {n \in lo..hi : 0 < n /\ n < g.columns /\ ColumnEnd(g, n)}

RECURSIVE SumWidths(_, _, _)
SumWidths(widths, lo, hi) ==
    IF lo > hi THEN 0 ELSE At(widths, lo) + SumWidths(widths, lo + 1, hi)

\* where the field of column col begins in a line, counted in display
\* columns from 0: the left padding of column 0, the columns before col, and
\* three for each interior boundary up to col whose column_end is true
FieldStart(g, widths, col) ==
    1 + SumWidths(widths, 0, col - 1) + 3 * Cardinality(Dividers(g, 1, col))

\* a line by display column: a wide character takes two
RECURSIVE Expand(_)
Expand(line) ==
    IF line = <<>> THEN <<>>
    ELSE (IF Head(line) = "W" THEN <<"W", "W">> ELSE <<Head(line)>>) \o Expand(Tail(line))

\* C12 - divider-free boundaries: an interior boundary whose column_end is
\* false contributes no character to any content line or separator line and
\* nothing to get_width of a cell spanning it; one whose column_end is true
\* (or whose style is absent) contributes three: space, divider, space between
\* the two cells that meet at it, three to the separator line and three to
\* get_width of a cell spanning it.  So every cell's field begins at the sum
\* of the widths before it plus three for each divider before it, and is
\* get_width wide; a line of a row that covers all columns, and a separator
\* line, are the sum of the widths plus three for each divider plus the outer
\* padding and closing border.
C12_DividerFreeBoundaries ==
    Rendered =>
       \A order \in iteration_orders(Grid) :
          LET widths == get_widths(Grid, order)
              total == SumWidths(widths, 0, columns - 1)
                          + 3 * Cardinality(Dividers(Grid, 1, columns - 1)) + 3
          IN /\ \A r \in 0..(Len(rows) - 1) :
                   LET cr == row(Grid, r)
                       line == Expand(out[ContentLine(Grid, r)])
                   IN /\ \A i \in 1..Len(cr) :
                            LET c == cr[i]
                                w == SumWidths(widths, c.column, c.column + c.colspan - 1)
                                        + 3 * Cardinality(Dividers(Grid, c.column + 1,
                                                                  c.column + c.colspan - 1))
                                from == FieldStart(Grid, widths, c.column)
                            IN /\ get_width(Grid, widths, c.column, c.colspan) = w
                               /\ SubSeq(line, from + 1, from + w)
                                     = Expand(fmt_aligned(c, w - c.width))
                               /\ i < Len(cr) =>
                                     SubSeq(line, from + w + 1,
                                            FieldStart(Grid, widths, cr[i + 1].column))
                                        = IF ColumnEnd(Grid, cr[i + 1].column)
                                          THEN <<" ", "|", " ">> ELSE <<>>
                      /\ RowColspan(Grid, r) = columns /\ columns >= 1 => Len(line) = total
          /\ \A r \in SeparatorRows(Grid) :
                columns >= 1 => Len(out[SeparatorLine(Grid, r)]) = total

\* A rendered grid with an interior boundary whose column_end is false, a row
\* with a cell on each side of it, a row with a cell spanning it, and a
\* separator line.
C12_Witness ==
    /\ Rendered
    /\ SeparatorRows(Grid) # {}
    /\ \E n \in 1..(columns - 1) :
          /\ ~ColumnEnd(Grid, n)
          /\ \E x, y \in 0..(Len(rows) - 1) :
                /\ BreaksAt(Grid, x, n) /\ RowColspan(Grid, x) > n
                /\ SpansAcross(Grid, y, n)

(***************************************************************************)
(* Properties of the layout pass (SpecSchema)                              *)
(***************************************************************************)
\* the declarations in order: a leaf, or the begin or end of a group
RECURSIVE Marks(_)
Marks(nodes) ==
    IF nodes = <<>> THEN <<>>
    ELSE LET n == Head(nodes)
         IN (IF IsLeaf(n) THEN <<"leaf">>
             ELSE IF IsGroup(n) THEN <<"edge">> \o Marks(n.body) \o <<"edge">>
             ELSE Marks(n.body))
            \o Marks(Tail(nodes))

\* where the i-th leaf (from 1) stands among the marks
LeafMark(marks, i) ==
    CHOOSE k \in 1..Len(marks) :
       /\ marks[k] = "leaf"
       /\ Cardinality({j \in 1..k : marks[j] = "leaf"}) = i

\* a group begins or ends between the i-th leaf and the next
EdgeBetween(marks, i) ==
    \E k \in (LeafMark(marks, i) + 1)..(LeafMark(marks, i + 1) - 1) : marks[k] = "edge"

\* C13 - layout sink divider rule: after the layout pass there is one style
\* for every leaf but the last, and the style of leaf i has column_end true
\* exactly when a group begins or ends between the declaration of leaf i and
\* that of leaf i + 1; consecutive leaves of one group get false.
C13_LayoutDividerRule ==
    LET marks == Marks(schema)
        leaves == LeafCount(schema)
    IN /\ Len(column_styles) = Max(leaves - 1, 0)
       /\ \A i \in 1..(leaves - 1) :
             column_styles[i].column_end <=> EdgeBetween(marks, i)

\* The header is written for a schema with a group in which two leaves follow
\* each other.
C13_Witness ==
    /\ target = GridLayout_from_schema(schema).depth_max
    /\ NestingDepth(schema) >= 1
    /\ \E i \in 1..(LeafCount(schema) - 1) :
          /\ ~EdgeBetween(Marks(schema), i)
          /\ ~column_styles[i].column_end

(***************************************************************************)
(* Properties of the builder's state (Spec)                                *)
(***************************************************************************)
\* C14 - colspan >= 1 invariant: push_with_colspan with colspan 0 leaves the
\* buffer and the cell list (and the rest of the builder) as they are, so
\* every stored cell has colspan >= 1 and the assertion of get_width holds
\* for every cell Display::fmt and get_widths hand to it.
C14_ColspanAtLeastOne ==
    /\ \A cell \in RawCells : push_with_colspan(Grid, cell, 0) = Grid
    /\ \A i \in 1..Len(cells) : cells[i].colspan >= 1
    /\ \A cr \in AllCellRefs(Grid) : get_width_assert(cr.colspan)

\* A rendered grid with a row that holds no cell, as a closure that calls
\* push_with_colspan with colspan 0 leaves it, next to a row with cells.
C14_Witness ==
    /\ Rendered
    /\ cells # <<>>
    /\ \E r \in 0..(Len(rows) - 1) : row(Grid, r) = <<>>

\* C15 - push_separator: it sets has_separator of the last row and changes
\* nothing else (no other row, no cell, not the buffer, the column count or
\* the styles); on a grid without rows it changes nothing; a second call
\* changes nothing more; and a rendered grid has, under each row whose flag is
\* set and under no other, exactly one line of '-' and '|', also when the row
\* is the last.
C15_PushSeparator ==
    LET g == push_separator(Grid)
        n == Len(rows)
    IN /\ [g EXCEPT !.rows = rows] = Grid
       /\ Len(g.rows) = n
       /\ \A i \in 1..(n - 1) : g.rows[i] = rows[i]
       /\ n > 0 => g.rows[n] = [rows[n] EXCEPT !.has_separator = TRUE]
       /\ n = 0 => g = Grid
       /\ push_separator(g) = g
       /\ Rendered =>
             /\ Len(out) = n + Cardinality(SeparatorRows(Grid))
             /\ \A r \in SeparatorRows(Grid) :
                   LET line == out[SeparatorLine(Grid, r)]
                   IN /\ \A k \in 1..Len(line) : line[k] \in {"-", "|"}
                      /\ columns >= 1 => line # <<>>
             /\ \A r \in 0..(n - 1) :
                   LET line == out[ContentLine(Grid, r)]
                   IN \A k \in 1..Len(line) : line[k] \notin {"-"}

\* A rendered grid of two rows with cells where push_separator was called
\* after the last row only.
C15_Witness ==
    /\ Rendered
    /\ Len(rows) = 2
    /\ columns >= 1
    /\ SeparatorRows(Grid) = {1}
    /\ row(Grid, 0) # <<>> /\ row(Grid, 1) # <<>>

(***************************************************************************)
(* Cells and their styles (cell.rs): plain values, whose type gives        *)
(* style_for_body, and Cell<T>, which carries a style of its own.          *)
(***************************************************************************)
TypeKinds == {"usize", "str", "char"}

\* impl_cell_source!($t, $align): style_for_body of a value of the type
style_for_body_of(kind) ==
    CASE kind = "usize" -> Right
      [] kind = "str" -> Left
      [] kind = "char" -> Center

\* what fmt writes for the values drawn of each type
TextsOf(kind) ==
    CASE kind = "usize" -> {<<"1">>, <<"1", "2", "3">>}
      [] kind = "str" -> {<<"a">>, <<"a", "b", "c">>}
      [] kind = "char" -> {<<"c">>}

\* a plain value as a cell: style() is the trait's default
Value(kind, text) == RawCell(text, NoAlign, style_for_body_of(kind))

\* Cell::new that also hands on style_for_body of its source
Cell_new_forward(source) == RawCell(source.text, source.style, source.style_for_body)

\* Cell::new: `style = source.style()`; impl CellSource for Cell<T> defines
\* fmt and style only, so style_for_body is the trait's default
Cell_new(source) == RawCell(source.text, source.style, NoAlign)

\* Cell::with_align_h, behind left(), center() and right()
with_align_h(cell, align_h) == RawCell(cell.text, align_h, cell.style_for_body)

\* How a caller makes a cell: a value of a type, wrapped in Cell::new or not,
\* with a call of left(), center() or right() or none.
CellInputs ==
    { in \in [kind : TypeKinds, text : UNION {TextsOf(k) : k \in TypeKinds},
              wrapped : BOOLEAN, align : {NoAlign, Left, Center, Right}] :
         /\ in.text \in TextsOf(in.kind)
         /\ in.align # NoAlign => in.wrapped }

MakeCell(in) ==
    LET v == Value(in.kind, in.text)
    IN IF ~in.wrapped THEN v
       ELSE IF in.align = NoAlign THEN Cell_new(v)
       ELSE with_align_h(Cell_new(v), in.align)

\* g.push(|b| b.push(cell)) with a cell made as above
PushStyled ==
    /\ Len(rows) < MaxStyleRows
    /\ \E in \in CellInputs :
          SetGrid(GridBuilder_push(Grid, <<[cell |-> MakeCell(in), colspan |-> 1]>>))
    /\ out' = NoOutput
    /\ UNCHANGED <<schema, target>>

NextStyle == PushStyled \/ Fmt

SpecStyle == Init /\ [][NextStyle]_vars

\* the line of a row that holds one cell: text in a field p wider than it
LineOf(text, p, align) ==
    LET lead == CASE align = Left -> 0
                  [] align = Right -> p
                  [] align = Center -> p \div 2
    IN <<" ">> \o Rep(" ", lead) \o text \o Rep(" ", p - lead) \o <<" ", "|">>

\* the line Display::fmt writes for the cell made from `in` when it is pushed
\* as one more row of the grid, and the padding its field holds
LineAfterPush(in) ==
    LET g == GridBuilder_push(Grid, <<[cell |-> MakeCell(in), colspan |-> 1]>>)
        widths == get_widths(g, CHOOSE o \in iteration_orders(g) : TRUE)
    IN [line |-> fmt_row(g, widths, Len(g.rows) - 1),
        p |-> At(widths, 0) - width(in.text)]

\* C16 as stated - style precedence: a body cell is rendered with the
\* instance's explicit alignment if it has one, otherwise with the default of
\* the value's type, also for a value wrapped in Cell::new without an
\* alignment call.
C16_StylePrecedence_AsStated ==
    \A in \in CellInputs :
       LET e == LineAfterPush(in)
       IN e.line = LineOf(in.text, e.p,
                          IF in.align # NoAlign THEN in.align
                          ELSE style_for_body_of(in.kind))

\* C16 - style precedence: a body cell is rendered with the instance's
\* explicit alignment if it has one; otherwise a plain value is rendered with
\* the default of its type (integers Right, text Left, char Center) and a
\* value wrapped in Cell::new without an alignment call is rendered Left,
\* whatever its type.  CellStyle::or(a, b) is a's alignment when set, else b's.
C16_StylePrecedence ==
    /\ \A in \in CellInputs :
          LET e == LineAfterPush(in)
          IN e.line = LineOf(in.text, e.p,
                             IF in.align # NoAlign THEN in.align
                             ELSE IF in.wrapped THEN Left
                             ELSE style_for_body_of(in.kind))
    /\ \A a, b \in {NoAlign, Left, Center, Right} :
          CellStyle_or(a, b) = (IF a = NoAlign THEN b ELSE a)

\* A rendered grid in which the integer 1, wrapped in Cell::new without an
\* alignment call, stands at the left of a field three wide.
C16_Witness ==
    /\ Rendered
    /\ \E r \in 0..(Len(rows) - 1) :
          /\ \E cr \in {row(Grid, r)} :
                Len(cr) = 1 /\ cr[1].s = <<"1">> /\ cr[1].style = NoAlign
          /\ out[r + 1] = <<" ", "1", " ", " ", " ", "|">>

(***************************************************************************)
(* write_csv (cells_csv_writer.rs): the header record, then one record for *)
(* each item.  The labels of the groups are those of HeaderCell, or the    *)
(* empty string for the declarations in `blank`.                           *)
(***************************************************************************)
\* the calls of a schema whose groups in `blank` have the header ""
Relabel(calls, blank) ==
    [i \in DOMAIN calls |->
        IF calls[i].op \in {"column_start", "column_end"} /\ Len(calls[i].cell.text) \in blank
        THEN [calls[i] EXCEPT !.cell.text = <<>>]
        ELSE calls[i]]

\* csv::Writer::write_record where no field needs quoting: the fields joined
\* by ',', and "" for a record of one empty field
RECURSIVE write_record_from(_, _)
write_record_from(record, i) ==
    IF i > Len(record) THEN <<>>
    ELSE (IF i > 1 THEN <<",">> ELSE <<>>) \o record[i] \o write_record_from(record, i + 1)

write_record(record) ==
    IF record = << <<>> >> THEN <<"\"", "\"">> ELSE write_record_from(record, 1)

\* the header record of write_csv
csv_header(nodes, separator, blank) ==
    CellsWrite_calls(CsvHeaderWriter_new(separator), Relabel(fmt_none(nodes), blank)).record

\* `for item in source`, from the k-th item on, with the one CsvBodyWriter
RECURSIVE csv_body(_, _, _, _, _)
csv_body(nodes, items, blank, w, k) ==
    IF k > Len(items) THEN <<>>
    ELSE LET w1 == CellsWrite_calls(w, Relabel(fmt_some(nodes, items[k]), blank))
         IN <<write_record(w1.record)>>
            \o csv_body(nodes, items, blank, [w1 EXCEPT !.record = <<>>], k + 1)

\* write_csv
write_csv(nodes, items, separator, blank) ==
    <<write_record(csv_header(nodes, separator, blank))>>
    \o csv_body(nodes, items, blank, CsvBodyWriter_new, 1)

CsvSeparator == <<".">>

\* where the groups of a schema are declared
RECURSIVE GroupPos(_, _)
GroupPos(nodes, pos) ==
    IF nodes = <<>> THEN {}
    ELSE (IF IsGroup(Head(nodes)) THEN {pos + 1} ELSE {})
         \cup GroupPos(Head(nodes).body, pos + 1)
         \cup GroupPos(Tail(nodes), pos + 1 + NodeCount(Head(nodes).body))

CsvItems(nodes) == UNION { [1..n -> Sources(nodes)] : n \in 0..MaxCsvItems }

InitCsv ==
    /\ schema \in Schemas
    /\ s = GridBuilder_new.s
    /\ cells = GridBuilder_new.cells
    /\ rows = GridBuilder_new.rows
    /\ columns = GridBuilder_new.columns
    /\ column_styles = GridBuilder_new.column_styles
    /\ target = 0
    /\ out = NoOutput

\* write_csv(&mut csv_writer, items, schema, ".")
WriteCsv ==
    /\ \E blank \in SUBSET GroupPos(schema, 0) :
          \E items \in CsvItems(schema) :
             out' = write_csv(schema, items, CsvSeparator, blank)
    /\ UNCHANGED <<s, cells, rows, columns, column_styles, schema, target>>

NextCsv == WriteCsv

SpecCsv == InitCsv /\ [][NextCsv]_vars

\* a declaration list holds a content leaf that is in no group of the list
RECURSIVE HasDirectLeaf(_)
HasDirectLeaf(nodes) ==
    \E i \in 1..Len(nodes) :
       \/ IsLeaf(nodes[i])
       \/ ~IsGroup(nodes[i]) /\ HasDirectLeaf(nodes[i].body)

\* the declarations in order: a content leaf, or the end of a group with the
\* groups around it (outermost first, itself last) and whether it holds a
\* content leaf directly
RECURSIVE CsvMarks(_, _, _)
CsvMarks(nodes, pos, path) ==
    IF nodes = <<>> THEN <<>>
    ELSE LET n == Head(nodes)
             p == pos + 1
         IN (IF IsLeaf(n) THEN <<[t |-> "leaf", path |-> path, direct |-> FALSE]>>
             ELSE IF IsGroup(n)
             THEN CsvMarks(n.body, p, Append(path, p))
                  \o <<[t |-> "end", path |-> Append(path, p),
                        direct |-> HasDirectLeaf(n.body)]>>
             ELSE CsvMarks(n.body, p, path))
            \o CsvMarks(Tail(nodes), p + NodeCount(n.body), path)

RECURSIVE PickFrom(_, _, _)
PickFrom(q, K, i) ==
    IF i > Len(q) THEN <<>>
    ELSE (IF i \in K THEN <<q[i]>> ELSE <<>>) \o PickFrom(q, K, i + 1)

Label(pos, blank) == IF pos \in blank THEN <<>> ELSE HeaderCell(pos).text

\* the labels of a path with the separator between each two
RECURSIVE JoinAll(_, _, _)
JoinAll(path, separator, blank) ==
    IF path = <<>> THEN <<>>
    ELSE IF Len(path) = 1 THEN Label(path[1], blank)
    ELSE Label(path[1], blank) \o separator \o JoinAll(Tail(path), separator, blank)

\* the same, but no separator is written while what precedes it is empty
RECURSIVE JoinNonEmpty(_, _, _, _)
JoinNonEmpty(path, separator, blank, acc) ==
    IF path = <<>> THEN acc
    ELSE JoinNonEmpty(Tail(path), separator, blank,
                      (IF acc # <<>> THEN acc \o separator ELSE acc)
                         \o Label(path[1], blank))

\* C17 as stated - CSV header flattening: the header record has one field for
\* each column that has content, the labels of all enclosing groups from
\* outermost to innermost joined by the separator, and write_csv emits
\* exactly that one header record before the records of the items.
C17_CsvHeaderFlattening_AsStated ==
    out # NoOutput =>
       \E blank \in SUBSET GroupPos(schema, 0) :
          LET marks == CsvMarks(schema, 0, <<>>)
              ends == PickFrom(marks, {i \in 1..Len(marks) : marks[i].direct}, 1)
              fields == [i \in 1..Len(ends) |->
                            JoinAll(ends[i].path, CsvSeparator, blank)]
          IN out[1] = write_record(fields)

\* the header record: one field for each group at whose end a content leaf
\* has been declared since the previous end of a group
ExpectedHeader(nodes, separator, blank) ==
    LET marks == CsvMarks(nodes, 0, <<>>)
        pending(e) == \E l \in 1..(e - 1) :
                         /\ marks[l].t = "leaf"
                         /\ \A k \in (l + 1)..(e - 1) : marks[k].t # "end"
        ends == PickFrom(marks, {e \in 1..Len(marks) : marks[e].t = "end" /\ pending(e)}, 1)
    IN [i \in 1..Len(ends) |-> JoinNonEmpty(ends[i].path, separator, blank, <<>>)]

\* C17 - CSV header flattening: write_csv emits exactly one header record,
\* before the records of the items.  It has one field for each group at whose
\* end a content leaf has been declared since the previous end of a group (so
\* one field for a group that holds several content leaves and no sub-column,
\* and none for a group without content); the field is the labels of the
\* group and of all groups around it, outermost first, joined by the
\* separator, which is left out while the labels before it are empty.
C17_CsvHeaderFlattening ==
    /\ \A blank \in SUBSET GroupPos(schema, 0) :
          csv_header(schema, CsvSeparator, blank)
             = ExpectedHeader(schema, CsvSeparator, blank)
    /\ out # NoOutput =>
          /\ Len(out) <= 1 + MaxCsvItems
          /\ \E blank \in SUBSET GroupPos(schema, 0) :
                out[1] = write_record(ExpectedHeader(schema, CsvSeparator, blank))

\* write_csv has written the header "h.hh" of a column in a group.
C17_Witness ==
    /\ out # NoOutput
    /\ out[1] = <<"h", ".", "h", "h">>
    /\ NestingDepth(schema) = 2

(***************************************************************************)
(* Properties of a grid built by new_with_header (SpecSchema)              *)
(***************************************************************************)
\* new_with_header has returned
HeaderDone == target = GridLayout_from_schema(schema).depth_max

\* C18 as stated - column_styles bound: for every grid built by
\* new_with_header followed by any number of body rows, zero included,
\* column_styles.len() <= columns.
C18_ColumnStylesBound_AsStated ==
    HeaderDone => Len(column_styles) <= columns

\* C18 - column_styles bound: for every grid built by new_with_header that
\* holds at least one row (a header row or a body row),
\* column_styles.len() <= columns; and a column beyond the vector has the
\* default style.
C18_ColumnStylesBound ==
    /\ HeaderDone /\ rows # <<>> => Len(column_styles) <= columns
    /\ \A column \in Len(column_styles)..columns :
          column_style(Grid, column) = ColumnStyle_DEFAULT

\* new_with_header has returned with a header row, a body row has followed,
\* and the last column has no style of its own while the one before has a
\* style that is not the default.
C18_Witness ==
    /\ HeaderDone
    /\ target >= 1
    /\ Len(rows) > target
    /\ Len(column_styles) >= 1
    /\ Len(column_styles) < columns
    /\ column_styles[Len(column_styles)] # ColumnStyle_DEFAULT

(***************************************************************************)
(* Properties of the column count and of the blocks of get_widths (Spec)   *)
(***************************************************************************)
\* C19 - column count: after any sequence of row pushes, columns is the
\* maximum over the rows of the sum of the colspans of the row's cells (0
\* without cells), so every cell has column + colspan <= columns, and the
\* widths get_widths returns have one entry for each column, which is every
\* column a cell covers; also when the widest row is one spanning cell.
C19_ColumnCount ==
    /\ columns = MaxOf({RowColspan(Grid, r) : r \in 0..(Len(rows) - 1)})
    /\ \A cr \in AllCellRefs(Grid) :
          /\ cr.column + cr.colspan <= columns
          /\ \A order \in iteration_orders(Grid) :
                \A i \in cr.column..(cr.column + cr.colspan - 1) :
                   i < Len(get_widths(Grid, order))
    /\ \A order \in iteration_orders(Grid) : Len(get_widths(Grid, order)) = columns

\* A rendered grid whose widest row is one cell spanning both columns, pushed
\* before a row of one cell.
C19_Witness ==
    /\ Rendered
    /\ Len(rows) = 2
    /\ columns = 2
    /\ \E cr \in {row(Grid, 0)} : Len(cr) = 1 /\ cr[1].colspan = 2
    /\ RowColspan(Grid, 1) = 1

\* the cells that span more than one column from `column` over `colspan`
SpanningCells(g, column, colspan) ==
    {cr \in AllCellRefs(g) : cr.colspan > 1 /\ cr.column = column /\ cr.colspan = colspan}

\* <<stretch, colspan, column, width>> of a comes before that of b
LexBefore(a, b) ==
    LET ka == <<a.stretch, a.colspan, a.column, a.width>>
        kb == <<b.stretch, b.colspan, b.column, b.width>>
    IN \E i \in 1..4 : ka[i] < kb[i] /\ \A j \in 1..(i - 1) : ka[j] = kb[j]

\* C20 - block collection and order: whatever the order in which the map
\* yields its entries, get_widths works on one block for each distinct pair
\* (starting column, colspan) among the cells with colspan > 1, whose width is
\* the largest display width of the cells of that pair and whose stretch is
\* the number of stretch-flagged columns in the span, and takes the blocks in
\* ascending lexicographic order of (stretch, colspan, column, width).
C20_BlockOrder ==
    \A order \in iteration_orders(Grid) :
       LET bs == blocks(Grid, order)
           pairs == {<<cr.column, cr.colspan>> :
                        cr \in {x \in AllCellRefs(Grid) : x.colspan > 1}}
       IN /\ Len(bs) = Cardinality(pairs)
          /\ {<<bs[i].column, bs[i].colspan>> : i \in 1..Len(bs)} = pairs
          /\ \A i \in 1..Len(bs) :
                /\ bs[i].width =
                      MaxOf({cr.width : cr \in SpanningCells(Grid, bs[i].column, bs[i].colspan)})
                /\ bs[i].stretch =
                      Cardinality({k \in bs[i].column..(bs[i].column + bs[i].colspan - 1) :
                                      column_style(Grid, k).stretch})
          /\ \A i, j \in 1..Len(bs) : i < j => LexBefore(bs[i], bs[j])

\* A rendered grid with two blocks, one of colspan 3 from column 0 and one
\* of colspan 2 from column 1, the second column flagged to stretch.
C20_Witness ==
    /\ Rendered
    /\ Cardinality(block_keys(Grid)) = 2
    /\ \E cr \in AllCellRefs(Grid) : cr.column = 0 /\ cr.colspan = 3
    /\ \E cr \in AllCellRefs(Grid) : cr.column = 1 /\ cr.colspan = 2
    /\ column_style(Grid, 1).stretch

(***************************************************************************)
(* Properties of the growth loop of get_widths (SpecWide)                  *)
(***************************************************************************)
\* the columns of block b the growth loop may grow: from `start` on, all of
\* them, or the stretch-flagged ones if the span has any
EligibleColumns(g, b) ==
    {c \in block_start(g, b)..(b.column + b.colspan - 1) :
        b.stretch = 0 \/ column_style(g, c).stretch}

MinOf(S) == CHOOSE m \in S : \A x \in S : m <= x

\* one iteration from ws to ws1 grows only eligible columns of minimum
\* width, none beyond the smallest eligible width above that minimum
LevelStep(g, b, ws, ws1) ==
    LET E == EligibleColumns(g, b)
        m == MinOf({At(ws.widths, c) : c \in E})
        above == {At(ws.widths, c) : c \in E} \ {m}
    IN \A c \in 0..(Len(ws.widths) - 1) :
          At(ws1.widths, c) # At(ws.widths, c) =>
             /\ c \in E
             /\ At(ws.widths, c) = m
             /\ above # {} => At(ws1.widths, c) <= MinOf(above)

\* [widths, width_sum] before the loop for block b and after each of its
\* iterations, from ws on
RECURSIVE LoopStates(_, _, _)
LoopStates(g, b, ws) ==
    <<ws>> \o (IF ws.width_sum < b.width THEN LoopStates(g, b, expand_step(g, b, ws))
              ELSE <<>>)

\* the widths and width_sum with which the loop of the n-th block begins
LoopStart(g, order, n) ==
    LET widths == widths_after(g, order, n - 1)
        b == blocks(g, order)[n]
    IN [widths |-> widths, width_sum |-> get_width(g, widths, b.column, b.colspan)]

\* C21 - level growth: in each iteration of the growth loop for a short
\* block only the eligible columns of minimum current width are grown, and
\* none of them ends the iteration wider than the smallest eligible width
\* that was strictly greater than that minimum at the start of the
\* iteration, for every arrangement of the column widths in the span.
C21_LevelGrowth ==
    \A order \in iteration_orders(Grid) :
       \A n \in 1..Len(order) :
          LET b == blocks(Grid, order)[n]
              q == LoopStates(Grid, b, LoopStart(Grid, order, n))
          IN \A k \in 1..(Len(q) - 1) : LevelStep(Grid, b, q[k], q[k + 1])

\* C22 - minimal reconciliation: when a block is short of its required width
\* at the moment it is processed, the running total of the growth loop never
\* exceeds the requirement (so required - total never underflows), the
\* running total is the width of the span, and when the loop exits the width
\* of the span equals the requirement exactly; a block that is already wide
\* enough changes no column.
C22_MinimalReconciliation ==
    \A order \in iteration_orders(Grid) :
       \A n \in 1..Len(order) :
          LET b == blocks(Grid, order)[n]
              ws == LoopStart(Grid, order, n)
              q == LoopStates(Grid, b, ws)
          IN IF ws.width_sum < b.width
             THEN /\ \A k \in 1..Len(q) :
                        /\ q[k].width_sum <= b.width
                        /\ q[k].width_sum =
                              get_width(Grid, q[k].widths, b.column, b.colspan)
                  /\ q[Len(q)].width_sum = b.width
                  /\ get_width(Grid, widths_after(Grid, order, n), b.column, b.colspan)
                        = b.width
             ELSE widths_after(Grid, order, n) = ws.widths

\* A rendered grid with a block that is short when it is processed and whose
\* loop takes two iterations, and a block that is wide enough already.
C22_Witness ==
    /\ Rendered
    /\ \E order \in iteration_orders(Grid) :
          /\ \E n \in 1..Len(order) :
                Len(LoopStates(Grid, blocks(Grid, order)[n], LoopStart(Grid, order, n))) >= 3
          /\ \E n \in 1..Len(order) :
                LoopStart(Grid, order, n).width_sum >= blocks(Grid, order)[n].width

\* for each leaf in order, whether it is declared through a formatter
\* obtained from stretch()
RECURSIVE StretchDeclared(_, _)
StretchDeclared(nodes, stretch) ==
    IF nodes = <<>> THEN <<>>
    ELSE LET n == Head(nodes)
         IN (IF IsLeaf(n) THEN <<stretch>>
             ELSE StretchDeclared(n.body, stretch \/ n.kind = "stretch"))
            \o StretchDeclared(Tail(nodes), stretch)

\* C23 - stretch propagation from the schema: in the grid built by
\* new_with_header the column style of a leaf's column has stretch = true if
\* the leaf is declared through a formatter obtained from stretch(), for
\* every position of the leaf in the schema, the last included, and
\* stretch = false otherwise.
C23_StretchPropagation ==
    HeaderDone =>
       LET declared == StretchDeclared(schema, FALSE)
       IN \A i \in 1..Len(declared) :
             column_style(Grid, i - 1).stretch = declared[i]

\* The states at the head of the first `fuel` iterations of
\* `while width_sum < b.width`, and the state after them.
RECURSIVE LoopPrefix_stall(_, _, _, _)
LoopPrefix_stall(g, b, ws, fuel) ==
    <<ws>> \o (IF ws.width_sum < b.width /\ fuel > 0
               THEN LoopPrefix_stall(g, b, ws, fuel - 1)
               ELSE <<>>)

RECURSIVE LoopPrefix(_, _, _, _)
LoopPrefix(g, b, ws, fuel) ==
    <<ws>> \o (IF ws.width_sum < b.width /\ fuel > 0
               THEN LoopPrefix(g, b, expand_step(g, b, ws), fuel - 1)
               ELSE <<>>)

Shortfall(b, ws) == IF ws.width_sum < b.width THEN b.width - ws.width_sum ELSE 0

\* C26 - termination of width reconciliation: for every block every
\* iteration of the growth loop increases the running total by at least 1,
\* and the loop has exited after at most as many iterations as the block's
\* initial shortfall (required width minus the sum of its columns' widths).
C26_Termination ==
    \A order \in iteration_orders(Grid) :
       \A n \in 1..Len(order) :
          LET b == blocks(Grid, order)[n]
              ws == LoopStart(Grid, order, n)
              q == LoopPrefix(Grid, b, ws, Shortfall(b, ws))
          IN /\ \A k \in 1..(Len(q) - 1) : q[k + 1].width_sum >= q[k].width_sum + 1
             /\ q[Len(q)].width_sum >= b.width

\* A rendered grid with a block that is short by at least 3 and whose loop
\* takes at least two iterations, fewer than its shortfall.
C26_Witness ==
    /\ Rendered
    /\ \E order \in iteration_orders(Grid) :
          \E n \in 1..Len(order) :
             LET b == blocks(Grid, order)[n]
                 ws == LoopStart(Grid, order, n)
             IN /\ Shortfall(b, ws) >= 3
                /\ Len(LoopStates(Grid, b, ws)) - 1 >= 2
                /\ Len(LoopStates(Grid, b, ws)) - 1 < Shortfall(b, ws)

(***************************************************************************)
(* The first loop of get_widths, cell by cell, over the rows taken in a    *)
(* given order.                                                            *)
(***************************************************************************)
\* `*e = c.width` in place of `*e = max(*e, c.width)`
entry_update_last(e, w) == w

\* `*e = max(*e, c.width)`
entry_update(e, w) == Max(e, w)

\* `for c in row { ... }` for the CellRefs refs; acc is [widths, blocks],
\* blocks the HashMap from ColRange to width.
RECURSIVE collect_cells(_, _)
collect_cells(refs, acc) ==
    IF refs = <<>> THEN acc
    ELSE LET c == Head(refs)
             key == [colspan |-> c.colspan, column |-> c.column]
             m == acc.blocks
         IN collect_cells(Tail(refs),
               IF c.colspan = 1
               THEN [acc EXCEPT !.widths[c.column + 1] = entry_update(@, c.width)]
               ELSE [acc EXCEPT !.blocks =
                        [k \in DOMAIN m \cup {key} |->
                            IF k = key
                            THEN entry_update(IF key \in DOMAIN m THEN m[key] ELSE 0,
                                              c.width)
                            ELSE m[k]]])

\* The rows of g pushed in the order p (a permutation of the row numbers).
RowOrders(g) ==
    LET R == 0..(Len(g.rows) - 1)
    IN {p \in [1..Len(g.rows) -> R] : \A i, j \in DOMAIN p : i # j => p[i] # p[j]}

collect_rows(g, p) ==
    collect_cells(Concat([i \in DOMAIN p |-> row(g, p[i])]),
                  [widths |-> [i \in 1..g.columns |-> 0], blocks |-> <<>>])

\* The second loop, over the sorted blocks q.
RECURSIVE process_blocks(_, _, _)
process_blocks(g, widths, q) ==
    IF q = <<>> THEN widths
    ELSE process_blocks(g, process_block(g, widths, Head(q)), Tail(q))

\* get_widths for the rows pushed in the order p, the map iterated in `order`.
get_widths_of_rows(g, p, order) ==
    LET acc == collect_rows(g, p)
    IN process_blocks(g, acc.widths,
          sort_blocks([i \in DOMAIN order |->
              [stretch |-> stretch_count(g, order[i].column, order[i].colspan),
               colspan |-> order[i].colspan,
               column |-> order[i].column,
               width |-> acc.blocks[order[i]]]]))

\* C25 - row-order independence: for fixed column_styles the widths that
\* get_widths computes are the same for every order in which the same rows
\* were pushed and for every order in which the block map is iterated.
C25_RowOrderIndependence ==
    \A p1, p2 \in RowOrders(Grid) :
       \A o1, o2 \in iteration_orders(Grid) :
          /\ DOMAIN collect_rows(Grid, p1).blocks = block_keys(Grid)
          /\ get_widths_of_rows(Grid, p1, o1) = get_widths_of_rows(Grid, p2, o2)
          /\ get_widths_of_rows(Grid, p1, o1) = get_widths(Grid, o2)

\* A rendered grid of two rows that put cells of different widths into the
\* same entry of the block map, and whose block has to be grown.
C25_Witness ==
    /\ Rendered
    /\ Len(rows) = 2
    /\ \E a, b \in AllCellRefs(Grid) :
          /\ a.colspan = 2 /\ b.colspan = 2 /\ a.column = b.column
          /\ a.width < b.width /\ a.idx > b.idx
    /\ \E o \in iteration_orders(Grid) : get_widths(Grid, o) # simple_widths(Grid)

(***************************************************************************)
(* The widths of the rendered lines (SpecWide).                             *)
(***************************************************************************)
\* g after push_separator has been called after the rows in S were pushed
WithSeparators(g, S) ==
    [g EXCEPT !.rows = [r \in DOMAIN g.rows |->
                           [g.rows[r] EXCEPT !.has_separator = (r - 1) \in S]]]

FullRows(g) == \A r \in 0..(Len(g.rows) - 1) : RowColspan(g, r) = g.columns

UniformLines(lines) == \A i, j \in DOMAIN lines : width(lines[i]) = width(lines[j])

\* C27 - uniform line width: when the colspans of every row of the grid sum
\* to `columns`, every content line and every separator line of the rendered
\* output has the same number of display columns, whatever the spanning
\* cells, the column_end settings and the rows that have a separator.
C27_UniformLineWidth ==
    FullRows(Grid) =>
       \A S \in SUBSET (0..(Len(rows) - 1)) :
          \A order \in iteration_orders(Grid) :
             UniformLines(Display_fmt(WithSeparators(Grid, S), order))

\* A rendered grid of two full rows of three columns with overlapping
\* spanning cells, a column without a divider after it, and lines that are
\* drawn also when a separator follows the first row.
C27_Witness ==
    /\ Rendered
    /\ FullRows(Grid)
    /\ columns = 3 /\ Len(rows) = 2
    /\ Cardinality(block_keys(Grid)) = 2
    /\ \E n \in 1..2 : ~column_style(Grid, n - 1).column_end
    /\ \E order \in iteration_orders(Grid) :
          LET lines == Display_fmt(WithSeparators(Grid, {0}), order)
          IN lines # Panicked /\ Len(lines) = 3 /\ width(lines[1]) > 3

(***************************************************************************)
(* The merge brackets a body row's calls make (SpecSchema).                *)
(***************************************************************************)
\* the number of merges open before call i of cs
OpenBefore(cs, i) ==
    Cardinality({j \in 1..(i - 1) : cs[j].op = "content_start"})
    - Cardinality({j \in 1..(i - 1) : cs[j].op = "content_end"})

\* C28 - merge brackets never nest: for every schema and every source value,
\* whatever the nesting of try_map_with, the body sink is given content_start
\* only while no merge is open and content_end only while one is open, no
\* merge is open at the end of the row, and so the assertion of
\* BodyWriter::content_start and the unwrap of content_end do not fail.
C28_MergeBracketsNeverNest ==
    /\ out # Panicked
    /\ \A src \in Sources(schema) :
          LET cs == fmt_some(schema, src)
              w == extend_with_schema(src, schema)
          IN /\ \A i \in 1..Len(cs) :
                   /\ cs[i].op = "content_start" => OpenBefore(cs, i) = 0
                   /\ cs[i].op = "content_end" => OpenBefore(cs, i) = 1
             /\ OpenBefore(cs, Len(cs) + 1) = 0
             /\ ~w.panicked /\ w.colspan = <<>>

\* A body row pushed for a schema with a try_map_with inside a try_map_with,
\* from a source with an Err: the row is the Err's cell.
C28_Witness ==
    /\ Len(rows) > target
    /\ out # Panicked
    /\ Len(schema) = 1
    /\ schema[1].kind = "try_map_with"
    /\ Len(schema[1].body) = 1
    /\ schema[1].body[1].kind = "try_map_with"
    /\ LeafCount(schema) = 1
    /\ RowCells(Grid, target) = <<[text |-> ErrCell.text, colspan |-> 1]>>

(***************************************************************************)
(* The body records of write_csv for two items (SpecCsv).                   *)
(***************************************************************************)
\* the body records, as written, of write_csv for the items
BodyRecords(nodes, items, blank) == csv_body(nodes, items, blank, CsvBodyWriter_new, 1)

\* C29 - CSV record isolation: the body record that write_csv writes for an
\* item is the one it writes for that item when no item comes before it, so
\* no text formatted for an earlier item appears in it, for every schema,
\* those with content leaves outside any column group or after the last
\* column included.
C29_CsvRecordIsolation ==
    \A blank \in SUBSET GroupPos(schema, 0) :
       \A a, b \in Sources(schema) :
          BodyRecords(schema, <<a, b>>, blank)[2] = BodyRecords(schema, <<b>>, blank)[1]

(***************************************************************************)
(* TextGrid (lib.rs): the grid whose rows are built cell by cell through a *)
(* TextGridRowGuard.  Its state is s, cells and rows; `target` holds the   *)
(* cells_idx of the guard that is alive, NoGuard when there is none.       *)
(***************************************************************************)
MaxTextRows == 2
MaxTextCells == 3
MaxMerge == 2
MaxTextColspan == 3

NoGuard == 0 - 1

TextGrid == [s |-> s, cells |-> cells, rows |-> rows]

TextGrid_new == [s |-> <<>>, cells |-> <<>>, rows |-> <<>>]

\* The closures given to push_by: one writes `text` to the buffer and then
\* returns Ok or Err.  push(value, align) is the closure write!(b, "{}", value).
TextInputs == { <<"a">>, <<"x", "x", "x", "x", "x", "x">> }
Closures == [text : TextInputs, ok : BOOLEAN]
Alignments == {Left, Center}

\* push_cell_by without `self.s.truncate(s_idx)`
push_cell_by_keep(g, f, colspan, align) ==
    LET s_idx == Len(g.s)
        s1 == g.s \o f.text
    IN IF f.ok
       THEN [g |-> [g EXCEPT !.s = s1,
                       !.cells = Append(@, [s_idx |-> s_idx,
                                            width |-> width(SubSeq(s1, s_idx + 1, Len(s1))),
                                            colspan |-> colspan, align |-> align])],
             r |-> "Ok"]
       ELSE [g |-> [g EXCEPT !.s = s1], r |-> "Err"]

\* TextGrid::push_cell_by: the grid after the call and the Result returned
push_cell_by(g, f, colspan, align) ==
    LET s_idx == Len(g.s)
        s1 == g.s \o f.text
    IN IF f.ok
       THEN [g |-> [g EXCEPT !.s = s1,
                       !.cells = Append(@, [s_idx |-> s_idx,
                                            width |-> width(SubSeq(s1, s_idx + 1, Len(s1))),
                                            colspan |-> colspan, align |-> align])],
             r |-> "Ok"]
       ELSE [g |-> [g EXCEPT !.s = SubSeq(s1, 1, s_idx)], r |-> "Err"]

\* TextGridRowGuard::push_by
push_by(g, f, align) == push_cell_by(g, f, 1, align)

\* TextGridRowGuard::has_cells
has_cells(g, cells_idx) == cells_idx < Len(g.cells)

\* TextGridRowGuard::push_empty
push_empty(g) ==
    [g EXCEPT !.cells = Append(@, [s_idx |-> Len(g.s), width |-> 0, colspan |-> 1,
                                   align |-> Left])]

\* TextGridRowGuard::push_merged
push_merged(g, cells_idx, count) ==
    IF count # 0
    THEN LET empty == ~has_cells(g, cells_idx)
             g1 == IF empty THEN push_empty(g) ELSE g
             count1 == IF empty THEN count - 1 ELSE count
         IN [g1 EXCEPT !.cells[Len(g1.cells)].colspan = @ + count1]
    ELSE g

\* impl Drop for TextGridRowGuard
TextGridRowGuard_drop(g, cells_idx) ==
    [g EXCEPT !.rows = Append(@, [cells_idx |-> cells_idx, has_separator |-> FALSE])]

\* TextGrid::row, iterated to its end: the CellRefs of row r
RECURSIVE TextGrid_collect(_, _, _, _)
TextGrid_collect(g, column, idx, end) ==
    IF idx = end THEN <<>>
    ELSE LET c == At(g.cells, idx)
         IN <<[width |-> c.width, colspan |-> c.colspan, align |-> c.align,
               s |-> SubSeq(g.s, s_idx_of(g, idx) + 1, s_idx_of(g, idx + 1)),
               column |-> column]>>
            \o TextGrid_collect(g, column + c.colspan, idx + 1, end)

TextGrid_row(g, r) == TextGrid_collect(g, 0, cells_idx_of(g, r), cells_idx_of(g, r + 1))

\* the CellRefs of all rows, in the order the two loops of get_widths meet them
TextGrid_refs(g) == Concat([r \in 1..Len(g.rows) |-> TextGrid_row(g, r - 1)])

\* The first loop of get_widths; acc is [panic, widths].  One cell pushes at
\* most one entry, and widths[c.column] is out of range when the vector is
\* still shorter than c.column + 1.
RECURSIVE first_loop(_, _)
first_loop(refs, acc) ==
    IF refs = <<>> \/ acc.panic THEN acc
    ELSE LET c == Head(refs)
             w1 == IF Len(acc.widths) <= c.column THEN Append(acc.widths, 0)
                   ELSE acc.widths
         IN first_loop(Tail(refs),
               IF c.colspan = 1
               THEN IF c.column >= Len(w1)
                    THEN [panic |-> TRUE, widths |-> w1]
                    ELSE [panic |-> FALSE,
                          widths |-> [w1 EXCEPT ![c.column + 1] = Max(@, c.width)]]
               ELSE [panic |-> FALSE, widths |-> w1])

\* The second loop of get_widths for one cell with colspan > 1.  `checks` is
\* whether the build checks arithmetic overflow.  widths.len() - c.column
\* below zero panics with checks, and without them wraps, so that the slice
\* widths[c.column..c.column + colspan] is out of range.  A span clipped to
\* no column makes (colspan - 1) * 3 overflow: a panic with checks, and
\* without them a width_sum of 2^64 - 3, under which the loop is not entered.
\* The loop is that of GridBuilder::get_widths with every column eligible.
second_loop_cell(g, c, widths, checks) ==
    IF Len(widths) < c.column THEN [panic |-> TRUE, widths |-> widths]
    ELSE LET colspan == Min(Len(widths) - c.column, c.colspan)
         IN IF colspan = 0 THEN [panic |-> checks, widths |-> widths]
            ELSE LET width_sum == SumWidths(widths, c.column, c.column + colspan - 1)
                                  + (colspan - 1) * 3
                     b == [stretch |-> 0, colspan |-> colspan, column |-> c.column,
                           width |-> c.width]
                 IN [panic |-> FALSE,
                     widths |-> expand_while(g, b, [widths |-> widths,
                                                    width_sum |-> width_sum]).widths]

RECURSIVE second_loop(_, _, _, _)
second_loop(g, refs, acc, checks) ==
    IF refs = <<>> \/ acc.panic THEN acc
    ELSE second_loop(g, Tail(refs),
            IF Head(refs).colspan > 1
            THEN second_loop_cell(g, Head(refs), acc.widths, checks)
            ELSE acc,
            checks)

\* TextGrid::get_widths: [panic, widths]
TextGrid_get_widths(g, checks) ==
    second_loop(g, TextGrid_refs(g),
                first_loop(TextGrid_refs(g), [panic |-> FALSE, widths |-> <<>>]),
                checks)

Aborted == <<<<"abort">>>>

\* Display for TextGrid: whether the cell c can be written.  A span clipped
\* to no column is reached only without overflow checks; its padding is then
\* 2^64 - 3 - c.width spaces, which no writer takes.
cell_fails(c, widths) ==
    \/ Len(widths) <= c.column
    \/ LET colspan == Min(Len(widths) - c.column, c.colspan)
       IN SumWidths(widths, c.column, c.column + colspan - 1) + (colspan - 1) * 3 < c.width

\* The body of `for c in self.row(row)` of Display::fmt.
TextGrid_fmt_cell(c, widths) ==
    LET colspan == Min(Len(widths) - c.column, c.colspan)
        w == SumWidths(widths, c.column, c.column + colspan - 1) + (colspan - 1) * 3
    IN <<" ">> \o fmt_aligned([style |-> c.align, s |-> c.s], w - c.width) \o <<" ", "|">>

\* The separator line under row r.
RECURSIVE TextGrid_separator(_, _, _, _)
TextGrid_separator(g, widths, column, cs) ==
    IF column >= Len(widths) THEN <<>>
    ELSE LET cs1 == [i \in DOMAIN cs |-> cursor_advance(g, cs[i], column)]
         IN <<"-">> \o Rep("-", At(widths, column)) \o <<"-">>
            \o (IF \A i \in DOMAIN cs1 : cs1[i].column = column + 1
                THEN <<"|">> ELSE <<"-">>)
            \o TextGrid_separator(g, widths, column + 1, cs1)

\* impl Display for TextGrid: the lines written
TextGrid_fmt(g, checks) ==
    LET gw == TextGrid_get_widths(g, checks)
        refs == TextGrid_refs(g)
    IN IF gw.panic THEN <<<<"panic">>>>
       ELSE IF \E i \in DOMAIN refs : cell_fails(refs[i], gw.widths) THEN Aborted
       ELSE Concat([r \in 1..Len(g.rows) |->
               <<Concat([i \in DOMAIN TextGrid_row(g, r - 1) |->
                    TextGrid_fmt_cell(TextGrid_row(g, r - 1)[i], gw.widths)])>>
               \o (IF g.rows[r].has_separator
                   THEN <<TextGrid_separator(g, gw.widths, 0,
                             <<cursor(g, r - 1), cursor(g, r)>>)>>
                   ELSE <<>>)])

SetTextGrid(g) == s' = g.s /\ cells' = g.cells /\ rows' = g.rows

InitText ==
    /\ s = TextGrid_new.s
    /\ cells = TextGrid_new.cells
    /\ rows = TextGrid_new.rows
    /\ columns = 0
    /\ column_styles = <<>>
    /\ schema = <<>>
    /\ target = NoGuard
    /\ out = NoOutput

\* let mut row = g.push_row()
TextPushRow ==
    /\ target = NoGuard
    /\ Len(rows) < MaxTextRows
    /\ target' = Len(cells)
    /\ out' = NoOutput
    /\ UNCHANGED <<s, cells, rows, columns, column_styles, schema>>

\* row.push_by(f, align): `out` takes the Result that is returned
TextPushBy ==
    /\ target # NoGuard
    /\ Len(cells) < MaxTextCells
    /\ \E f \in Closures, align \in Alignments :
          LET res == push_by(TextGrid, f, align)
          IN SetTextGrid(res.g) /\ out' = <<<<res.r>>>>
    /\ UNCHANGED <<columns, column_styles, schema, target>>

\* row.push_merged(count)
TextPushMerged ==
    /\ target # NoGuard
    /\ Len(cells) < MaxTextCells
    /\ \E count \in 0..MaxMerge :
          /\ has_cells(TextGrid, target) => cells[Len(cells)].colspan + count <= MaxTextColspan
          /\ SetTextGrid(push_merged(TextGrid, target, count))
    /\ out' = NoOutput
    /\ UNCHANGED <<columns, column_styles, schema, target>>

\* row.push_empty()
TextPushEmpty ==
    /\ target # NoGuard
    /\ Len(cells) < MaxTextCells
    /\ SetTextGrid(push_empty(TextGrid))
    /\ out' = NoOutput
    /\ UNCHANGED <<columns, column_styles, schema, target>>

\* the guard goes out of scope
TextDrop ==
    /\ target # NoGuard
    /\ SetTextGrid(TextGridRowGuard_drop(TextGrid, target))
    /\ target' = NoGuard
    /\ out' = NoOutput
    /\ UNCHANGED <<columns, column_styles, schema>>

\* g.push_separator()
TextPushSeparator ==
    /\ target = NoGuard
    /\ SetTextGrid(push_separator(TextGrid))
    /\ out' = NoOutput
    /\ UNCHANGED <<columns, column_styles, schema, target>>

\* format!("{}", g), in a build with or without overflow checks
TextFmt ==
    /\ target = NoGuard
    /\ \E checks \in BOOLEAN : out' = TextGrid_fmt(TextGrid, checks)
    /\ UNCHANGED <<s, cells, rows, columns, column_styles, schema, target>>

NextText ==
    TextPushRow \/ TextPushBy \/ TextPushMerged \/ TextPushEmpty \/ TextDrop
    \/ TextPushSeparator \/ TextFmt

SpecText == InitText /\ [][NextText]_vars

\* the columns that the cells of some row occupy
OccupiedColumns(g) ==
    MaxOf({c.column + c.colspan : c \in {TextGrid_refs(g)[i] : i \in DOMAIN TextGrid_refs(g)}})

\* C24 - TextGrid width vector: for the rows built with push and push_merged,
\* a row in which a merged cell is followed by further cells included,
\* get_widths completes without an index out of range, returns one width for
\* every column that some cell occupies, and gives the column of every cell
\* of colspan 1 at least that cell's display width.
C24_TextGridWidthVector ==
    \A checks \in BOOLEAN :
       LET gw == TextGrid_get_widths(TextGrid, checks)
           refs == TextGrid_refs(TextGrid)
       IN /\ ~gw.panic
          /\ Len(gw.widths) = OccupiedColumns(TextGrid)
          /\ \A i \in DOMAIN refs :
                refs[i].colspan = 1 => At(gw.widths, refs[i].column) >= refs[i].width

\* the Result of a push_by whose closure returned an error
ErrResult == <<<<"Err">>>>

\* C30 - a formatting error leaves the TextGrid unchanged: when the closure
\* given to push_by / push_cell_by returns an error, also after it has
\* written text, the error is returned to the caller, no cell is added, and
\* the buffer is cut back to the length it had before the call, so that the
\* offsets and the text of the cells pushed before are what they were.
C30_ErrorLeavesStateUnchanged ==
    [][ /\ \A f \in Closures, align \in Alignments :
              ~f.ok => LET res == push_cell_by(TextGrid, f, 1, align)
                       IN res.r = "Err" /\ res.g = TextGrid
        /\ out' = ErrResult =>
              /\ s' = s /\ cells' = cells /\ rows' = rows
              /\ \A i \in 1..Len(cells) :
                    SubSeq(s', s_idx_of(TextGrid, i - 1) + 1, s_idx_of(TextGrid, i))
                       = SubSeq(s, s_idx_of(TextGrid, i - 1) + 1, s_idx_of(TextGrid, i))
      ]_vars

\* A push_by has just returned an error in a row that has a cell already,
\* in a grid that has a row already.
C30_Witness ==
    /\ out = ErrResult
    /\ target # NoGuard
    /\ has_cells(TextGrid, target)
    /\ Len(rows) >= 1
    /\ s # <<>>

====
